---- MODULE Spec2Model ----
(***************************************************************************)
(* Model of mcp-local-rag: the FileIndexer (src/src/indexer.py), the       *)
(* ChromaDB wrapper VectorDB (src/src/vectordb.py) and the periodic        *)
(* re-index task with its shutdown handling (src/server.py).               *)
(*                                                                         *)
(* Scheduling.  Everything runs on one asyncio event loop.  None of the    *)
(* coroutines awaited by index_file, index_directory or the body of a      *)
(* periodic pass ever suspends (SentenceTransformer.encode, the OpenAI     *)
(* client, chromadb and subprocess.run are all synchronous calls), so an   *)
(* index_directory tool call and a periodic pass never interleave with     *)
(* each other: the only suspension point is the wait at the top of the     *)
(* periodic loop.  What does interleave with every step is the outside     *)
(* world: the file system, the shutdown signal (handled between two        *)
(* bytecodes of the main thread) and the force_exit thread (os._exit).     *)
(* The model therefore has one program counter, pc, for the activity       *)
(* that owns the event loop, and environment actions enabled at any pc.    *)
(*                                                                         *)
(* Specifications.  Spec is the server as above; SpecLive adds weak        *)
(* fairness of the event loop.  SpecRoots follows which collection holds   *)
(* the chunks of which project root, SpecName applies the three            *)
(* computations of a collection name to every directory name, SpecChunk    *)
(* steps _chunk_text over every text, chunk size and overlap.  SpecSearch, *)
(* SpecSemantic and SpecSimilar step search, semantic_code_search and      *)
(* find_similar_files over every ranked hit list of the store, and         *)
(* SpecDiscover steps discover_files over every filter configuration and   *)
(* tool output.  SpecPassFilter walks the file filter of a periodic pass   *)
(* over every tool output, SpecLoad constructs a FileIndexer over every    *)
(* state of file_metadata.json, SpecIndexFile steps one index_file call    *)
(* on supported and unsupported extensions, and SpecDeletion steps the     *)
(* deletion step of a pass over watched and sibling directories.  All but  *)
(* Spec and SpecLive keep their state in the variable bench and leave the  *)
(* server variables alone.                                                 *)
(***************************************************************************)
EXTENDS Integers, Sequences, FiniteSets, TLC

\* ---------------------------------------------------------------- bounds
MaxOps == 3        \* index_directory calls and periodic ticks started
MaxFsEvents == 1   \* edits/deletions of files by the outside world
MaxFaults == 1     \* injected failures of a collaborator (read, embed, store, disk, tool)

\* ------------------------------------------------------------- the world
\* Files of the watched project root, in the order rglob / the search tool lists them.
PathOrder == <<"a.py", "b.py">>
Paths == {PathOrder[i] : i \in DOMAIN PathOrder}
NoFile == 0
\* Two distinct file contents; content c splits into c chunks.
Contents == {1, 2}

\* The watched project root's directory name, as characters.
ProjectDirName == <<"p", ".", "x">>
AllowedChars == {"p", "x", "a", "b", "0", "1", "_", "-"}

\* re.sub(r'[^a-zA-Z0-9_-]', '_', path.name), "default" when empty
DefaultName == <<"d", "e", "f", "a", "u", "l", "t">>
CollectionNameHyphenReplaced(dirName) ==
    LET s == [i \in DOMAIN dirName |->
                 IF dirName[i] \in AllowedChars \ {"-"} THEN dirName[i] ELSE "_"]
    IN IF s = <<>> THEN DefaultName ELSE s

CollectionName(dirName) ==
    LET s == [i \in DOMAIN dirName |->
                 IF dirName[i] \in AllowedChars THEN dirName[i] ELSE "_"]
    IN IF s = <<>> THEN DefaultName ELSE s

\* config.get('collection_name', 'codebase')
ConfigCollection == <<"c", "o", "d", "e", "b", "a", "s", "e">>
ProjectCollection == CollectionName(ProjectDirName)
Collections == {ConfigCollection, ProjectCollection}

\* hashlib.md5(content).hexdigest(): injective on the contents of the model
NoHash == <<"md5", NoFile>>
FileHash(c) == <<"md5", c>>

\* A FileRecord of file_metadata; NoRec stands for "path not in file_metadata".
NoRec == [present |-> FALSE, hash |-> NoHash, chunks |-> 0]
FileRecord(c, n) == [present |-> TRUE, hash |-> FileHash(c), chunks |-> n]
EmptyMeta == [p \in Paths |-> NoRec]

\* _chunk_text + FileChunk ids: content c of a file yields c chunks whose ids
\* are (file_path, chunk_index, hash of the chunk's content).
ChunkText(path, c) ==
    {[file_path |-> path, chunk_index |-> i, content |-> c] : i \in 0..(c - 1)}

ChunksOfFile(chunks, path) == {k \in chunks : k.file_path = path}

\* ----------------------------------------------------------------- state
VARIABLES
    disk,            \* [Paths -> NoFile or a content]: the files on disk
    changed,         \* [Paths -> BOOLEAN]: mtime newer than the timestamp file
    store,           \* [Collections -> set of chunks]: the ChromaDB collections
    file_metadata,   \* FileIndexer.file_metadata (in memory)
    metaFile,        \* file_metadata.json on disk
    ixColl,          \* indexer.vectordb.collection_name
    srvColl,         \* the server's own vectordb.collection_name
    reindex_running, \* the reentrancy flag of periodic_reindex
    periodic,        \* the periodic task: "waiting", "timed_out", "in_pass",
                     \* "returned", "ended"
    alive,           \* the process: "running", "signalled", "exited", "stopped"
    pc,              \* position of the activity that owns the event loop
    op,              \* "none", "dir" (index_directory) or "pass" (periodic pass)
    call,            \* locals of the index_file call in progress / just returned
    queue,           \* files left to index in the current loop
    force,           \* index_directory's force_reindex argument
    stats,           \* index_directory's stats
    pass,            \* locals of the periodic pass
    removed,         \* history: paths whose FileRecord a deletion pass removed
    budget,          \* history: [ops, fs, faults] used so far
    bench            \* the call under study of the pure-function specifications

serverVars == <<disk, changed, store, file_metadata, metaFile, ixColl, srvColl,
                reindex_running, periodic, alive, pc, op, call, queue, force,
                stats, pass, removed, budget>>

vars == <<serverVars, bench>>

\* The server specification makes no use of the bench.
NoBench == [fn |-> "none"]

NoCall == [path |-> "a.py", force |-> FALSE, coll |-> <<>>, content |-> NoFile, ret |-> 0,
           raised |-> FALSE, failed |-> FALSE, error |-> "", unchanged |-> FALSE,
           preChunks |-> {}, preRec |-> NoRec, preFile |-> NoRec, added |-> FALSE]

NoStats == [files_processed |-> 0, files_skipped |-> 0, chunks_created |-> 0,
            errors |-> 0]

NoPass == [any |-> FALSE, delMeta |-> EmptyMeta, delQueue |-> <<>>,
           inserted |-> FALSE, deleted |-> FALSE, touched |-> FALSE,
           missing |-> {}]

\* The persisted metadata file: absent, complete (data is the JSON object) or
\* partial (opened with 'w', so truncated, and not yet completely written).
MetaAbsent == [state |-> "absent", data |-> EmptyMeta]
MetaPartial == [state |-> "partial", data |-> EmptyMeta]
MetaComplete(m) == [state |-> "complete", data |-> m]

\* The FileRecord of path readable from the persisted file.
Unreadable == [present |-> TRUE, hash |-> NoHash, chunks |-> 0]
PersistedRecord(path) ==
    IF metaFile.state = "partial" THEN Unreadable ELSE metaFile.data[path]

ServerInit ==
    /\ disk = [p \in Paths |-> 1]
    /\ changed = [p \in Paths |-> FALSE]
    /\ store = [c \in Collections |-> {}]
    /\ file_metadata = EmptyMeta
    /\ metaFile = MetaAbsent
    /\ ixColl = ConfigCollection
    /\ srvColl = ConfigCollection
    /\ reindex_running = FALSE
    /\ periodic = "waiting"
    /\ alive = "running"
    /\ pc = "idle"
    /\ op = "none"
    /\ call = NoCall
    /\ queue = <<>>
    /\ force = FALSE
    /\ stats = NoStats
    /\ pass = NoPass
    /\ removed = {}
    /\ budget = [ops |-> 0, fs |-> 0, faults |-> 0]

Init == ServerInit /\ bench = NoBench

Live == alive \in {"running", "signalled"}
CanFault == budget.faults < MaxFaults
UseFault == budget' = [budget EXCEPT !.faults = @ + 1]

\* The elements of a set of paths in PathOrder.
InOrder(S) == SelectSeq(PathOrder, LAMBDA p : p \in S)

\* ------------------------------------------------------------- VectorDB
\* VectorDB.delete_by_file: collection.delete(where={"file_path": file_path})
DeleteByFile(st, coll, path) ==
    [st EXCEPT ![coll] = {k \in @ : k.file_path # path}]

\* VectorDB.add_documents: collection.add(ids, documents, embeddings, metadatas)
AddDocuments(st, coll, docs) == [st EXCEPT ![coll] = @ \cup docs]

\* Every stored chunk of a path, whatever the collection.
StoredChunks(path) ==
    UNION {ChunksOfFile(store[c], path) : c \in Collections}

\* ----------------------------------------------------- FileIndexer.index_file
\* (mutation of ShouldIndexFile: the stored hash is not compared)
ShouldIndexFileNoHash(path, forced) == TRUE

\* _should_index_file, when reading the file for its hash does not raise.
ShouldIndexFile(path, forced) ==
    \/ forced
    \/ ~file_metadata[path].present
    \/ FileHash(disk[path]) # file_metadata[path].hash

\* _should_index_file opens the file only on this path of the code.
HashCheckRaises(path, forced) ==
    ~forced /\ file_metadata[path].present /\ disk[path] = NoFile

\* The locals of a fresh call; preChunks, preRec and preFile record what the
\* store and the metadata held for the path when the call started.
BeginIndexFile(path, forced, coll) ==
    [NoCall EXCEPT !.path = path, !.force = forced, !.coll = coll,
                   !.preChunks = StoredChunks(path),
                   !.preRec = file_metadata[path],
                   !.preFile = PersistedRecord(path)]

\* indexer.py 320-322: the exception of a step is logged and 0 returned
Fail(step) == call' = [call EXCEPT !.failed = TRUE, !.error = step, !.ret = 0]

\* indexer.py 238-251: switch collection, skip an unchanged file
IndexFileCheck ==
    /\ Live /\ pc = "if_check"
    /\ ixColl' = IF call.coll # <<>> THEN call.coll ELSE ixColl
    /\ LET p == call.path
           same == /\ ~call.force
                   /\ file_metadata[p].present
                   /\ disk[p] # NoFile
                   /\ file_metadata[p].hash = FileHash(disk[p])
       IN IF HashCheckRaises(p, call.force)
          THEN /\ call' = [call EXCEPT !.raised = TRUE]
               /\ pc' = "if_ret"
          ELSE IF ~ShouldIndexFile(p, call.force)
          THEN /\ call' = [call EXCEPT !.ret = 0, !.unchanged = same]
               /\ pc' = "if_ret"
          ELSE /\ call' = [call EXCEPT !.unchanged = same]
               /\ pc' = "if_read"
    /\ UNCHANGED <<disk, changed, store, file_metadata, metaFile, srvColl,
                   reindex_running, periodic, alive, op, queue, force, stats,
                   pass, removed, budget>>
    /\ UNCHANGED bench

\* indexer.py 256-267: read, chunk, one batch embedding request
IndexFileRead ==
    /\ Live /\ pc = "if_read"
    /\ disk[call.path] # NoFile
    /\ call' = [call EXCEPT !.content = disk[call.path]]
    /\ pc' = "if_delete"
    /\ UNCHANGED <<disk, changed, store, file_metadata, metaFile, ixColl,
                   srvColl, reindex_running, periodic, alive, op, queue, force,
                   stats, pass, removed, budget>>
    /\ UNCHANGED bench

\* open() raises: the file is gone, or it cannot be read
IndexFileReadFails ==
    /\ Live /\ pc = "if_read"
    /\ \/ disk[call.path] = NoFile /\ UNCHANGED budget
       \/ disk[call.path] # NoFile /\ CanFault /\ UseFault
    /\ Fail("read")
    /\ pc' = "if_ret"
    /\ UNCHANGED <<disk, changed, store, file_metadata, metaFile, ixColl,
                   srvColl, reindex_running, periodic, alive, op, queue, force,
                   stats, pass, removed>>
    /\ UNCHANGED bench

\* (mutation of IndexFileEmbedFails: the embeddings are requested after the
\* old chunks were deleted)
IndexFileEmbedFailsAfterDelete ==
    /\ Live /\ pc = "if_add"
    /\ CanFault /\ UseFault
    /\ Fail("embed")
    /\ pc' = "if_ret"
    /\ UNCHANGED <<disk, changed, store, file_metadata, metaFile, ixColl,
                   srvColl, reindex_running, periodic, alive, op, queue, force,
                   stats, pass, removed>>
    /\ UNCHANGED bench

\* indexer.py 260-267: embeddings.batch_generate raises, before the store is
\* touched
IndexFileEmbedFails ==
    /\ Live /\ pc = "if_read"
    /\ disk[call.path] # NoFile
    /\ CanFault /\ UseFault
    /\ Fail("embed")
    /\ pc' = "if_ret"
    /\ UNCHANGED <<disk, changed, store, file_metadata, metaFile, ixColl,
                   srvColl, reindex_running, periodic, alive, op, queue, force,
                   stats, pass, removed>>
    /\ UNCHANGED bench

\* indexer.py 291-294: delete the old chunks of a file that has a FileRecord
IndexFileDeleteOld ==
    /\ Live /\ pc = "if_delete"
    /\ store' = IF file_metadata[call.path].present
                THEN DeleteByFile(store, ixColl, call.path)
                ELSE store
    /\ pc' = "if_add"
    /\ UNCHANGED <<disk, changed, file_metadata, metaFile, ixColl, srvColl,
                   reindex_running, periodic, alive, op, call, queue, force,
                   stats, pass, removed, budget>>
    /\ UNCHANGED bench

\* collection.delete raises: delete_by_file logs it and returns 0 (vectordb.py 190-192)
IndexFileDeleteOldFails ==
    /\ Live /\ pc = "if_delete"
    /\ file_metadata[call.path].present
    /\ CanFault /\ UseFault
    /\ pc' = "if_add"
    /\ UNCHANGED <<disk, changed, store, file_metadata, metaFile, ixColl,
                   srvColl, reindex_running, periodic, alive, op, call, queue,
                   force, stats, pass, removed>>
    /\ UNCHANGED bench

\* indexer.py 296-306: insert the new chunks
IndexFileAdd ==
    /\ Live /\ pc = "if_add"
    /\ store' = AddDocuments(store, ixColl, ChunkText(call.path, call.content))
    /\ call' = [call EXCEPT !.added = TRUE]
    /\ pass' = IF op = "pass" THEN [pass EXCEPT !.inserted = TRUE] ELSE pass
    /\ pc' = "if_meta"
    /\ UNCHANGED <<disk, changed, file_metadata, metaFile, ixColl, srvColl,
                   reindex_running, periodic, alive, op, queue, force, stats,
                   removed, budget>>
    /\ UNCHANGED bench

\* collection.add raises: add_documents re-raises (vectordb.py 109-111)
IndexFileAddFails ==
    /\ Live /\ pc = "if_add"
    /\ CanFault /\ UseFault
    /\ Fail("add")
    /\ pc' = "if_ret"
    /\ UNCHANGED <<disk, changed, store, file_metadata, metaFile, ixColl,
                   srvColl, reindex_running, periodic, alive, op, queue, force,
                   stats, pass, removed>>
    /\ UNCHANGED bench

\* collection.add of ids the collection already holds: depending on the
\* chromadb version the ids are skipped (IndexFileAdd) or the call raises.
IndexFileAddDuplicate ==
    /\ Live /\ pc = "if_add"
    /\ ChunkText(call.path, call.content) \cap store[ixColl] # {}
    /\ Fail("add")
    /\ pc' = "if_ret"
    /\ UNCHANGED <<disk, changed, store, file_metadata, metaFile, ixColl,
                   srvColl, reindex_running, periodic, alive, op, queue, force,
                   stats, pass, removed, budget>>
    /\ UNCHANGED bench

\* indexer.py 308-314: the FileRecord, with the hash of the file as it is now
IndexFileMeta ==
    /\ Live /\ pc = "if_meta"
    /\ disk[call.path] # NoFile
    /\ file_metadata' =
         [file_metadata EXCEPT ![call.path] =
            FileRecord(disk[call.path],
                       Cardinality(ChunkText(call.path, call.content)))]
    /\ removed' = removed \ {call.path}
    /\ pc' = "if_save"
    /\ UNCHANGED <<disk, changed, store, metaFile, ixColl, srvColl,
                   reindex_running, periodic, alive, op, call, queue, force,
                   stats, pass, budget>>
    /\ UNCHANGED bench

\* _get_file_hash raises at line 310: the file is gone
IndexFileHashFails ==
    /\ Live /\ pc = "if_meta"
    /\ disk[call.path] = NoFile
    /\ Fail("hash")
    /\ pc' = "if_ret"
    /\ UNCHANGED <<disk, changed, store, file_metadata, metaFile, ixColl,
                   srvColl, reindex_running, periodic, alive, op, queue, force,
                   stats, pass, removed, budget>>
    /\ UNCHANGED bench

\* _save_file_metadata, open(path, 'w'): the file is truncated
IndexFileSaveOpen ==
    /\ Live /\ pc = "if_save"
    /\ metaFile' = MetaPartial
    /\ pc' = "if_dump"
    /\ UNCHANGED <<disk, changed, store, file_metadata, ixColl, srvColl,
                   reindex_running, periodic, alive, op, call, queue, force,
                   stats, pass, removed, budget>>
    /\ UNCHANGED bench

\* _save_file_metadata, json.dump completed and the file closed; return len(chunks)
IndexFileSaveDump ==
    /\ Live /\ pc = "if_dump"
    /\ metaFile' = MetaComplete(file_metadata)
    /\ call' = [call EXCEPT
                  !.ret = Cardinality(ChunkText(call.path, call.content))]
    /\ pc' = "if_ret"
    /\ UNCHANGED <<disk, changed, store, file_metadata, ixColl, srvColl,
                   reindex_running, periodic, alive, op, queue, force, stats,
                   pass, removed, budget>>
    /\ UNCHANGED bench

\* json.dump raises (disk full): caught at indexer.py 320
IndexFileSaveFails ==
    /\ Live /\ pc = "if_dump"
    /\ CanFault /\ UseFault
    /\ Fail("save")
    /\ pc' = "if_ret"
    /\ UNCHANGED <<disk, changed, store, file_metadata, metaFile, ixColl,
                   srvColl, reindex_running, periodic, alive, op, queue, force,
                   stats, pass, removed>>
    /\ UNCHANGED bench

\* ------------------------------------------------ FileIndexer.index_directory
\* indexer.py 374-381: one file's result added to the stats
CountFile(st, c) ==
    IF c.raised
    THEN [st EXCEPT !.errors = @ + 1]
    ELSE IF c.ret > 0
    THEN [st EXCEPT !.files_processed = @ + 1, !.chunks_created = @ + c.ret]
    ELSE [st EXCEPT !.files_skipped = @ + 1]

\* indexer.py 331-367: a tool call starts; collection of the root; discovery
DirStart ==
    /\ alive = "running" /\ pc = "idle"
    /\ budget.ops < MaxOps
    /\ budget' = [budget EXCEPT !.ops = @ + 1]
    /\ \E f \in BOOLEAN : force' = f
    /\ ixColl' = ProjectCollection
    /\ queue' = InOrder({p \in Paths : disk[p] # NoFile})
    /\ stats' = NoStats
    /\ op' = "dir"
    /\ pc' = "d_loop"
    /\ UNCHANGED <<disk, changed, store, file_metadata, metaFile, srvColl,
                   reindex_running, periodic, alive, call, pass, removed>>
    /\ UNCHANGED bench

\* indexer.py 371-373: index_file(str(file_path), force_reindex)
DirNext ==
    /\ Live /\ pc = "d_loop" /\ queue # <<>>
    /\ call' = BeginIndexFile(Head(queue), force, <<>>)
    /\ pc' = "if_check"
    /\ UNCHANGED <<disk, changed, store, file_metadata, metaFile, ixColl,
                   srvColl, reindex_running, periodic, alive, op, queue, force,
                   stats, pass, removed, budget>>
    /\ UNCHANGED bench

\* indexer.py 374-381
DirCount ==
    /\ Live /\ pc = "if_ret" /\ op = "dir"
    /\ stats' = CountFile(stats, call)
    /\ queue' = Tail(queue)
    /\ call' = NoCall
    /\ pc' = "d_loop"
    /\ UNCHANGED <<disk, changed, store, file_metadata, metaFile, ixColl,
                   srvColl, reindex_running, periodic, alive, op, force, pass,
                   removed, budget>>
    /\ UNCHANGED bench

\* indexer.py 390-391: return stats
DirDone ==
    /\ Live /\ pc = "d_loop" /\ queue = <<>>
    /\ pc' = "d_done"
    /\ UNCHANGED <<disk, changed, store, file_metadata, metaFile, ixColl,
                   srvColl, reindex_running, periodic, alive, op, call, queue,
                   force, stats, pass, removed, budget>>
    /\ UNCHANGED bench

\* the tool call's answer is sent; the event loop is free again
DirReturn ==
    /\ Live /\ pc = "d_done"
    /\ pc' = "idle"
    /\ op' = "none"
    /\ stats' = NoStats
    /\ force' = FALSE
    /\ UNCHANGED <<disk, changed, store, file_metadata, metaFile, ixColl,
                   srvColl, reindex_running, periodic, alive, call, queue, pass,
                   removed, budget>>
    /\ UNCHANGED bench

\* ------------------------------------------------ server.py periodic_reindex
\* server.py 112-118: the wait for shutdown_event times out while the event
\* is not set: TimeoutError is delivered to the task.
Tick ==
    /\ alive = "running" /\ pc = "idle" /\ periodic = "waiting"
    /\ budget.ops < MaxOps
    /\ budget' = [budget EXCEPT !.ops = @ + 1]
    /\ periodic' = "timed_out"
    /\ UNCHANGED <<disk, changed, store, file_metadata, metaFile, ixColl,
                   srvColl, reindex_running, alive, pc, op, call, queue, force,
                   stats, pass, removed>>
    /\ UNCHANGED bench

\* server.py 117-125: the task resumes with the TimeoutError, passes it,
\* checks the reentrancy flag and starts the pass.  Nothing on this path
\* looks at shutdown_event again, and the signal handler may have run since
\* the timer fired.
PassBegin ==
    /\ Live /\ pc = "idle" /\ periodic = "timed_out"
    /\ IF reindex_running
       THEN /\ periodic' = "waiting"
            /\ UNCHANGED <<reindex_running, pc, op, pass>>
       ELSE /\ reindex_running' = TRUE
            /\ periodic' = "in_pass"
            /\ pass' = NoPass
            /\ op' = "pass"
            /\ pc' = "p_scan"
    /\ UNCHANGED <<disk, changed, store, file_metadata, metaFile, ixColl,
                   srvColl, alive, call, queue, force, stats, removed, budget>>
    /\ UNCHANGED bench

\* The files fd/find report as changed since the timestamp file, filtered by
\* supported extension (server.py 135-173).
SupportedChangedFiles == InOrder({p \in Paths : disk[p] # NoFile /\ changed[p]})

\* server.py 162-177, 194-195
PassScan ==
    /\ Live /\ pc = "p_scan"
    /\ IF SupportedChangedFiles # <<>>
       THEN /\ pass' = [pass EXCEPT !.any = TRUE]
            /\ queue' = SupportedChangedFiles
            /\ pc' = "p_loop"
       ELSE /\ pc' = "p_delscan"
            /\ UNCHANGED <<pass, queue>>
    /\ UNCHANGED <<disk, changed, store, file_metadata, metaFile, ixColl,
                   srvColl, reindex_running, periodic, alive, op, call, force,
                   stats, removed, budget>>
    /\ UNCHANGED bench

\* (mutation of PassScanToolMissing: the return skips the finally block)
PassScanToolMissingNoFinally ==
    /\ Live /\ pc = "p_scan"
    /\ CanFault /\ UseFault
    /\ periodic' = "returned"
    /\ pass' = NoPass
    /\ op' = "none"
    /\ pc' = "idle"
    /\ UNCHANGED <<disk, changed, store, file_metadata, metaFile, ixColl,
                   srvColl, reindex_running, alive, call, queue, force, stats,
                   removed>>
    /\ UNCHANGED bench

\* server.py 155-158 then 264-266: the tool is not available; return, through finally
PassScanToolMissing ==
    /\ Live /\ pc = "p_scan"
    /\ CanFault /\ UseFault
    /\ reindex_running' = FALSE
    /\ periodic' = "returned"
    /\ pass' = NoPass
    /\ op' = "none"
    /\ pc' = "idle"
    /\ UNCHANGED <<disk, changed, store, file_metadata, metaFile, ixColl,
                   srvColl, alive, call, queue, force, stats, removed>>
    /\ UNCHANGED bench

\* server.py 162, 197-198: the tool exits non-zero or subprocess.run raises
PassScanToolError ==
    /\ Live /\ pc = "p_scan"
    /\ CanFault /\ UseFault
    /\ pc' = "p_delscan"
    /\ UNCHANGED <<disk, changed, store, file_metadata, metaFile, ixColl,
                   srvColl, reindex_running, periodic, alive, op, call, queue,
                   force, stats, pass, removed>>
    /\ UNCHANGED bench

\* server.py 187-189: index_file(file_path, force_reindex=True, collection_name)
PassNext ==
    /\ Live /\ pc = "p_loop" /\ queue # <<>>
    /\ call' = BeginIndexFile(Head(queue), TRUE, CollectionName(ProjectDirName))
    /\ pc' = "if_check"
    /\ UNCHANGED <<disk, changed, store, file_metadata, metaFile, ixColl,
                   srvColl, reindex_running, periodic, alive, op, queue, force,
                   stats, pass, removed, budget>>
    /\ UNCHANGED bench

\* server.py 190-193: the result is only logged
PassCount ==
    /\ Live /\ pc = "if_ret" /\ op = "pass"
    /\ queue' = Tail(queue)
    /\ call' = NoCall
    /\ pc' = "p_loop"
    /\ UNCHANGED <<disk, changed, store, file_metadata, metaFile, ixColl,
                   srvColl, reindex_running, periodic, alive, op, force, stats,
                   pass, removed, budget>>
    /\ UNCHANGED bench

PassLoopDone ==
    /\ Live /\ pc = "p_loop" /\ queue = <<>>
    /\ pc' = "p_delscan"
    /\ UNCHANGED <<disk, changed, store, file_metadata, metaFile, ixColl,
                   srvColl, reindex_running, periodic, alive, op, call, queue,
                   force, stats, pass, removed, budget>>
    /\ UNCHANGED bench

\* server.py 209-213: the recorded files (all under the watched root) that are gone
DeletedFiles(meta) == {p \in Paths : meta[p].present /\ disk[p] = NoFile}

\* server.py 201-215, 254-255: read the metadata file, list the deleted files
PassDelScan ==
    /\ Live /\ pc = "p_delscan"
    /\ IF metaFile.state = "complete"
       THEN /\ pass' = [pass EXCEPT !.delMeta = metaFile.data,
                                    !.delQueue = InOrder(DeletedFiles(metaFile.data)),
                                    !.missing = DeletedFiles(metaFile.data)]
            /\ pc' = IF DeletedFiles(metaFile.data) = {} THEN "p_marker" ELSE "p_del"
       ELSE \* no file; or json.load raises on a partial file, caught at 254
            /\ pc' = "p_marker"
            /\ UNCHANGED pass
    /\ UNCHANGED <<disk, changed, store, file_metadata, metaFile, ixColl,
                   srvColl, reindex_running, periodic, alive, op, call, queue,
                   force, stats, removed, budget>>
    /\ UNCHANGED bench

\* server.py 235-244: chunks deleted, entry removed from the pass's copy
PassDelete ==
    /\ Live /\ pc = "p_del" /\ pass.delQueue # <<>>
    /\ srvColl' = CollectionName(ProjectDirName)
    /\ store' = DeleteByFile(store, srvColl', Head(pass.delQueue))
    /\ pass' = [pass EXCEPT !.delMeta[Head(pass.delQueue)] = NoRec,
                            !.delQueue = Tail(@),
                            !.any = TRUE,
                            !.deleted = TRUE]
    /\ UNCHANGED <<disk, changed, file_metadata, metaFile, ixColl,
                   reindex_running, periodic, alive, pc, op, call, queue, force,
                   stats, removed, budget>>
    /\ UNCHANGED bench

\* collection.delete raises inside delete_by_file, which swallows it
PassDeleteFails ==
    /\ Live /\ pc = "p_del" /\ pass.delQueue # <<>>
    /\ CanFault /\ UseFault
    /\ srvColl' = CollectionName(ProjectDirName)
    /\ pass' = [pass EXCEPT !.delMeta[Head(pass.delQueue)] = NoRec,
                            !.delQueue = Tail(@),
                            !.any = TRUE]
    /\ UNCHANGED <<disk, changed, store, file_metadata, metaFile, ixColl,
                   reindex_running, periodic, alive, pc, op, call, queue, force,
                   stats, removed>>
    /\ UNCHANGED bench

\* server.py 249-250: open(metadata_path, 'w')
PassDelSaveOpen ==
    /\ Live /\ pc = "p_del" /\ pass.delQueue = <<>>
    /\ IF pass.any
       THEN metaFile' = MetaPartial /\ pc' = "p_deldump"
       ELSE UNCHANGED metaFile /\ pc' = "p_marker"
    /\ UNCHANGED <<disk, changed, store, file_metadata, ixColl, srvColl,
                   reindex_running, periodic, alive, op, call, queue, force,
                   stats, pass, removed, budget>>
    /\ UNCHANGED bench

\* server.py 251: json.dump(file_metadata, f) completed
PassDelSaveDump ==
    /\ Live /\ pc = "p_deldump"
    /\ metaFile' = MetaComplete(pass.delMeta)
    /\ removed' = removed \cup pass.missing
    /\ pc' = "p_marker"
    /\ UNCHANGED <<disk, changed, store, file_metadata, ixColl, srvColl,
                   reindex_running, periodic, alive, op, call, queue, force,
                   stats, pass, budget>>
    /\ UNCHANGED bench

\* json.dump raises, caught at server.py 254
PassDelSaveFails ==
    /\ Live /\ pc = "p_deldump"
    /\ CanFault /\ UseFault
    /\ pc' = "p_marker"
    /\ UNCHANGED <<disk, changed, store, file_metadata, metaFile, ixColl,
                   srvColl, reindex_running, periodic, alive, op, call, queue,
                   force, stats, pass, removed>>
    /\ UNCHANGED bench

\* server.py 257-262: timestamp_file.touch() when any_files_processed
PassMarker ==
    /\ Live /\ pc = "p_marker"
    /\ IF pass.any
       THEN /\ changed' = [p \in Paths |-> FALSE]
            /\ pass' = [pass EXCEPT !.touched = TRUE]
       ELSE UNCHANGED <<changed, pass>>
    /\ pc' = "p_finally"
    /\ UNCHANGED <<disk, store, file_metadata, metaFile, ixColl, srvColl,
                   reindex_running, periodic, alive, op, call, queue, force,
                   stats, removed, budget>>
    /\ UNCHANGED bench

\* server.py 264-266: finally; back to the wait at the top of the loop
PassFinally ==
    /\ Live /\ pc = "p_finally"
    /\ reindex_running' = FALSE
    /\ periodic' = "waiting"
    /\ pass' = NoPass
    /\ op' = "none"
    /\ pc' = "idle"
    /\ UNCHANGED <<disk, changed, store, file_metadata, metaFile, ixColl,
                   srvColl, alive, call, queue, force, stats, removed, budget>>
    /\ UNCHANGED bench

\* ------------------------------------------------------------- environment
\* A file is written (or created): new content, mtime newer than the marker.
FsEdit ==
    /\ Live /\ budget.fs < MaxFsEvents
    /\ \E p \in Paths, c \in Contents :
         /\ c # disk[p]
         /\ disk' = [disk EXCEPT ![p] = c]
         /\ changed' = [changed EXCEPT ![p] = TRUE]
    /\ budget' = [budget EXCEPT !.fs = @ + 1]
    /\ UNCHANGED <<store, file_metadata, metaFile, ixColl, srvColl,
                   reindex_running, periodic, alive, pc, op, call, queue, force,
                   stats, pass, removed>>
    /\ UNCHANGED bench

FsDelete ==
    /\ Live /\ budget.fs < MaxFsEvents
    /\ \E p \in Paths :
         /\ disk[p] # NoFile
         /\ disk' = [disk EXCEPT ![p] = NoFile]
         /\ changed' = [changed EXCEPT ![p] = FALSE]
    /\ budget' = [budget EXCEPT !.fs = @ + 1]
    /\ UNCHANGED <<store, file_metadata, metaFile, ixColl, srvColl,
                   reindex_running, periodic, alive, pc, op, call, queue, force,
                   stats, pass, removed>>
    /\ UNCHANGED bench

\* server.py 640-657: SIGINT/SIGTERM; shutdown_event set, server task
\* cancelled, force_exit thread started.  Code that is running goes on.
SignalHandler ==
    /\ alive = "running"
    /\ alive' = "signalled"
    /\ UNCHANGED <<disk, changed, store, file_metadata, metaFile, ixColl,
                   srvColl, reindex_running, periodic, pc, op, call, queue,
                   force, stats, pass, removed, budget>>
    /\ UNCHANGED bench

\* The process has ended: nothing of its memory is left, only the files on
\* disk and the ChromaDB collections remain.
ProcessGone ==
    /\ file_metadata' = EmptyMeta
    /\ ixColl' = ConfigCollection
    /\ srvColl' = ConfigCollection
    /\ reindex_running' = FALSE
    /\ periodic' = "ended"
    /\ pc' = "ended"
    /\ op' = "none"
    /\ call' = NoCall
    /\ queue' = <<>>
    /\ force' = FALSE
    /\ stats' = NoStats
    /\ pass' = NoPass

\* server.py 651-656: os._exit(0) from the force_exit thread, wherever the
\* main thread is.
ForceExit ==
    /\ alive = "signalled"
    /\ alive' = "exited"
    /\ ProcessGone
    /\ UNCHANGED <<disk, changed, store, metaFile, removed, budget>>
    /\ UNCHANGED bench

\* server.py 112-116, 674-692: the event loop is free; the waiting periodic
\* task sees the event (or is cancelled) and ends; main returns.
Shutdown ==
    /\ alive = "signalled" /\ pc = "idle" /\ periodic # "timed_out"
    /\ alive' = "stopped"
    /\ ProcessGone
    /\ UNCHANGED <<disk, changed, store, metaFile, removed, budget>>
    /\ UNCHANGED bench

Next ==
    \/ IndexFileCheck \/ IndexFileRead \/ IndexFileReadFails
    \/ IndexFileEmbedFails \/ IndexFileDeleteOld \/ IndexFileDeleteOldFails
    \/ IndexFileAdd \/ IndexFileAddFails \/ IndexFileAddDuplicate
    \/ IndexFileMeta \/ IndexFileHashFails \/ IndexFileSaveOpen
    \/ IndexFileSaveDump \/ IndexFileSaveFails
    \/ DirStart \/ DirNext \/ DirCount \/ DirDone \/ DirReturn
    \/ Tick \/ PassBegin \/ PassScan \/ PassScanToolMissing \/ PassScanToolError
    \/ PassNext \/ PassCount \/ PassLoopDone \/ PassDelScan \/ PassDelete
    \/ PassDeleteFails \/ PassDelSaveOpen \/ PassDelSaveDump
    \/ PassDelSaveFails \/ PassMarker \/ PassFinally
    \/ FsEdit \/ FsDelete \/ SignalHandler \/ ForceExit \/ Shutdown

Spec == Init /\ [][Next]_vars

\* ------------------------------------------------------------------ claims
\* The chunks this index_file call inserts.
NewChunks == ChunkText(call.path, call.content)

\* C1: in a re-index of a file that has a FileRecord, once a new chunk has
\* been inserted the store holds no chunk of the file's previous version.
C1_OldChunksGoneBeforeInsert ==
    (call.preRec.present /\ call.added)
        => (call.preChunks \ NewChunks) \cap StoredChunks(call.path) = {}

\* C2: when index_file on an already-indexed file returns after a failure,
\* the store still holds all of the file's previous chunks.
C2_ReindexFailsClosed ==
    (pc = "if_ret" /\ call.failed /\ call.preRec.present)
        => call.preChunks \subseteq StoredChunks(call.path)

\* C3: when any step of index_file fails, the path's FileRecord is as it was
\* before the call, in memory and in the persisted metadata file.
C3_FailureLeavesFileRecord ==
    (pc = "if_ret" /\ (call.failed \/ call.raised))
        => /\ file_metadata[call.path] = call.preRec
           /\ PersistedRecord(call.path) = call.preFile

\* C4: index_file without force on a file whose FileRecord hash equals the
\* hash of its current content returns 0, and index_directory counts the file
\* in files_skipped and not in files_processed.
C4_UnchangedFileIsSkipped ==
    [][(pc = "if_ret" /\ op = "dir" /\ call.unchanged /\ pc' = "d_loop")
          => /\ call.ret = 0
             /\ ~call.added
             /\ stats'.files_skipped = stats.files_skipped + 1
             /\ stats'.files_processed = stats.files_processed
             /\ stats'.errors = stats.errors]_vars

C4_Witness ==
    /\ pc = "if_ret" /\ op = "dir"
    /\ call.unchanged /\ call.ret = 0
    /\ file_metadata[call.path].hash = FileHash(disk[call.path])

\* C5: in index_directory a file whose indexing fails is counted in errors,
\* not in files_skipped or files_processed.
C5_FailedFileCountsAsError ==
    [][(pc = "if_ret" /\ op = "dir" /\ (call.failed \/ call.raised)
           /\ pc' = "d_loop")
          => /\ stats'.errors = stats.errors + 1
             /\ stats'.files_skipped = stats.files_skipped
             /\ stats'.files_processed = stats.files_processed]_vars

\* C6: a periodic pass that advanced the last-checked marker inserted chunks
\* or deleted a removed file's chunks or FileRecord during that pass.
C6_MarkerAdvancesOnlyOnMutation ==
    (pc = "p_finally" /\ pass.touched)
        => (pass.inserted \/ pass.deleted \/ pass.missing # {})

\* C7: when a periodic pass completes, every path that had a FileRecord and
\* no file on disk at the deletion scan has no FileRecord in the metadata
\* store and no chunk in the collection of its root.
C7_DeletedFilesPurged ==
    pc = "p_finally"
        => \A p \in pass.missing :
              /\ metaFile.state = "complete" => ~metaFile.data[p].present
              /\ ChunksOfFile(store[CollectionName(ProjectDirName)], p) = {}

\* C8: a FileRecord removed by a deletion pass is not written back to the
\* persisted metadata file by a later index_file of another file.
C8_NoLostMetadataUpdate ==
    metaFile.state = "complete"
        => \A p \in removed : ~metaFile.data[p].present

\* C9: the reentrancy flag is set exactly while the one periodic pass is in
\* flight; it is cleared whenever the pass has ended, by the normal path or
\* by an early return.
C9_SinglePassInFlight ==
    Live => /\ reindex_running <=> (op = "pass")
            /\ reindex_running <=> (periodic = "in_pass")
            /\ pc = "idle" => ~reindex_running

C9_Witness ==
    /\ Live /\ pc = "idle"
    /\ periodic = "returned"
    /\ ~reindex_running

\* C10: wherever the process stops after a shutdown signal, the metadata
\* file on disk is a complete JSON object.
C10_MetadataFileNeverPartial ==
    alive \in {"exited", "stopped"} => metaFile.state # "partial"

\* ------------------------------------------------------------------ C11
\* The event loop, when it is free, runs the next step of whatever owns it;
\* the steps are synchronous calls that return or raise.  The timer, the
\* file system and the signal are not obliged to do anything.
EventLoop ==
    \/ IndexFileCheck \/ IndexFileRead \/ IndexFileReadFails
    \/ IndexFileEmbedFails \/ IndexFileDeleteOld \/ IndexFileDeleteOldFails
    \/ IndexFileAdd \/ IndexFileAddFails \/ IndexFileAddDuplicate
    \/ IndexFileMeta \/ IndexFileHashFails \/ IndexFileSaveOpen
    \/ IndexFileSaveDump \/ IndexFileSaveFails
    \/ DirNext \/ DirCount \/ DirDone \/ DirReturn
    \/ PassBegin \/ PassScan \/ PassScanToolMissing \/ PassScanToolError
    \/ PassNext \/ PassCount \/ PassLoopDone \/ PassDelScan \/ PassDelete
    \/ PassDeleteFails \/ PassDelSaveOpen \/ PassDelSaveDump
    \/ PassDelSaveFails \/ PassMarker \/ PassFinally \/ Shutdown

SpecLive == Spec /\ WF_vars(EventLoop)

\* C11: once the shutdown event is set the periodic task starts no pass (no
\* step taken with the event set moves the task into a pass), and from then
\* on the task eventually terminates.
C11_NoPassAfterShutdown ==
    /\ [][alive = "signalled" => ~(periodic # "in_pass" /\ periodic' = "in_pass")]_vars
    /\ (alive = "signalled") ~> (periodic \in {"ended", "returned"})

\* ==================================================== collections per root
\* Project roots handed to index_directory and kept in watched_dirs: a parent
\* directory and a directory name.  Path(directory).resolve().name is the
\* last component.
UnderscoreDirName == <<"p", "_", "x">>
HyphenDirName == <<"a", "-", "b">>
Roots == {[parent |-> "u", name |-> ProjectDirName],
          [parent |-> "u", name |-> UnderscoreDirName],
          [parent |-> "v", name |-> HyphenDirName]}

\* server.py 179-183: the periodic re-index computes the name itself.
PeriodicAllowedChars == {"p", "x", "a", "b", "0", "1", "_", "-"}
PeriodicCollectionName(dirName) ==
    LET s == [i \in DOMAIN dirName |->
                 IF dirName[i] \in PeriodicAllowedChars THEN dirName[i] ELSE "_"]
    IN IF s = <<>> THEN <<"d", "e", "f", "a", "u", "l", "t">> ELSE s

\* server.py 225-228: so does the deletion pass.
DeletionAllowedChars == {"p", "x", "a", "b", "0", "1", "_", "-"}
DeletionCollectionName(dirName) ==
    LET s == [i \in DOMAIN dirName |->
                 IF dirName[i] \in DeletionAllowedChars THEN dirName[i] ELSE "_"]
    IN IF s = <<>> THEN <<"d", "e", "f", "a", "u", "l", "t">> ELSE s

\* What the routing of chunks depends on: the collection the indexer's
\* VectorDB has selected, and which collection holds chunks of which root's
\* files.  last is the operation just completed; direct records whether
\* index_file was ever called from outside index_directory and the pass.
NoOperation == [op |-> "none", root |-> "none", coll |-> <<>>]
InitRoots ==
    /\ ServerInit
    /\ bench = [fn |-> "roots", collection_name |-> ConfigCollection,
                chunks |-> {}, last |-> NoOperation, direct |-> FALSE]

Stored(c, r) == [coll |-> c, root |-> r]

\* indexer.py 342-365: switch to the name derived from the directory, then
\* index_file(file) for every file, with no collection argument.
RootsIndexDirectory(r) ==
    /\ bench.fn = "roots"
    /\ LET c == CollectionName(r.name)
       IN bench' = [bench EXCEPT !.collection_name = c,
                                 !.chunks = @ \cup {Stored(c, r)},
                                 !.last = [op |-> "index_directory", root |-> r, coll |-> c]]
    /\ UNCHANGED serverVars

\* server.py 179-188, indexer.py 238-240: index_file(file, collection_name=c)
\* switches the indexer's VectorDB to c and stores there.
RootsPeriodicPass(r) ==
    /\ bench.fn = "roots"
    /\ LET c == PeriodicCollectionName(r.name)
       IN bench' = [bench EXCEPT !.collection_name = c,
                                 !.chunks = @ \cup {Stored(c, r)},
                                 !.last = [op |-> "periodic", root |-> r, coll |-> c]]
    /\ UNCHANGED serverVars

\* indexer.py 234-306: index_file(file) with collection_name None does not
\* switch; delete_by_file and add_documents go to self.vectordb.collection,
\* whatever it is.
RootsIndexFile(r) ==
    /\ bench.fn = "roots"
    /\ LET c == bench.collection_name
       IN bench' = [bench EXCEPT !.chunks = @ \cup {Stored(c, r)},
                                 !.last = [op |-> "index_file", root |-> r, coll |-> c],
                                 !.direct = TRUE]
    /\ UNCHANGED serverVars

\* server.py 219-241: a file of root r has disappeared; the server's own
\* VectorDB switches to the root's collection and deletes the file's chunks
\* there.  The indexer's selection is not touched.
RootsDeletionPass(r) ==
    /\ bench.fn = "roots"
    /\ \E k \in bench.chunks : k.root = r
    /\ LET c == DeletionCollectionName(r.name)
       IN bench' = [bench EXCEPT !.chunks = @ \ {Stored(c, r)},
                                 !.last = [op |-> "deletion", root |-> r, coll |-> c]]
    /\ UNCHANGED serverVars

NextRoots ==
    \/ \E r \in Roots : RootsIndexDirectory(r)
    \/ \E r \in Roots : RootsPeriodicPass(r)
    \/ \E r \in Roots : RootsIndexFile(r)
    \/ \E r \in Roots : RootsDeletionPass(r)

SpecRoots == InitRoots /\ [][NextRoots]_vars

\* ------------------------------------------------------------------ C12
\* C12: when index_file has been called with no collection argument, the
\* file's chunks are in the collection named after the file's project root,
\* whichever collection was selected before the call.
C12_IndexFileUsesRootCollection ==
    (bench.fn = "roots" /\ bench.last.op = "index_file")
        => /\ bench.last.coll = CollectionName(bench.last.root.name)
           /\ Stored(CollectionName(bench.last.root.name), bench.last.root)
                  \in bench.chunks

\* ------------------------------------------------------------------ C13
\* C13: after index_directory calls and periodic passes only, no collection
\* holds chunks of files of two different project roots.
C13_OneRootPerCollection ==
    (bench.fn = "roots" /\ ~bench.direct)
        => \A k1, k2 \in bench.chunks : k1.coll = k2.coll => k1.root = k2.root

\* ================================================== the collection name
\* Directory names are drawn from all strings of at most MaxNameLen
\* characters over a letter, a digit, the two characters the pattern keeps
\* besides them, and two it does not.
MaxNameLen == 2
NameChars == {"p", "1", "_", "-", ".", " "}
DirNames == UNION {[1..n -> NameChars] : n \in 0..MaxNameLen}

Sites == {"index_directory", "periodic", "deletion"}
NotComputed == [done |-> FALSE, name |-> <<>>]
Computed(n) == [done |-> TRUE, name |-> n]

InitName ==
    /\ ServerInit
    /\ \E d \in DirNames :
         bench = [fn |-> "name", dirName |-> d,
                  names |-> [site \in Sites |-> NotComputed]]

\* indexer.py 344-347
NameInIndexDirectory ==
    /\ bench.fn = "name" /\ ~bench.names["index_directory"].done
    /\ bench' = [bench EXCEPT !.names["index_directory"] =
                                  Computed(CollectionName(bench.dirName))]
    /\ UNCHANGED serverVars

\* server.py 179-183
NameInPeriodicPass ==
    /\ bench.fn = "name" /\ ~bench.names["periodic"].done
    /\ bench' = [bench EXCEPT !.names["periodic"] =
                                  Computed(PeriodicCollectionName(bench.dirName))]
    /\ UNCHANGED serverVars

\* server.py 224-228
NameInDeletionPass ==
    /\ bench.fn = "name" /\ ~bench.names["deletion"].done
    /\ bench' = [bench EXCEPT !.names["deletion"] =
                                  Computed(DeletionCollectionName(bench.dirName))]
    /\ UNCHANGED serverVars

NextName == NameInIndexDirectory \/ NameInPeriodicPass \/ NameInDeletionPass

SpecName == InitName /\ [][NextName]_vars

\* ------------------------------------------------------------------ C14
\* The letters and digits among the characters of the model.
Alphanumeric == {"p", "x", "a", "b", "0", "1"}

\* C14 as stated: every site's name is the directory name with each
\* character that is not a letter or digit replaced by "_" (the default name
\* for the empty directory name), so the sites agree.
C14_NonAlphanumericReplaced ==
    bench.fn = "name" =>
        \A site \in Sites :
            bench.names[site].done =>
                LET d == bench.dirName
                    n == bench.names[site].name
                IN IF d = <<>>
                   THEN n = DefaultName
                   ELSE /\ Len(n) = Len(d)
                        /\ \A i \in 1..Len(d) :
                              n[i] = IF d[i] \in Alphanumeric THEN d[i] ELSE "_"

\* C14 amended: every site's name is the directory name with each character
\* other than a letter, a digit, "_" and "-" replaced by "_" (the default
\* name for the empty directory name), and the sites that have computed a
\* name for the root have computed the same one.
C14_NameKeepsHyphen ==
    bench.fn = "name" =>
        /\ \A site \in Sites :
              bench.names[site].done =>
                LET d == bench.dirName
                    n == bench.names[site].name
                IN IF d = <<>>
                   THEN n = DefaultName
                   ELSE /\ Len(n) = Len(d)
                        /\ \A i \in 1..Len(d) :
                              n[i] = IF d[i] \in Alphanumeric \cup {"_", "-"}
                                     THEN d[i] ELSE "_"
        /\ \A s1, s2 \in Sites :
              (bench.names[s1].done /\ bench.names[s2].done)
                  => bench.names[s1].name = bench.names[s2].name

\* All three sites have named a root whose directory name has a hyphen and a
\* character the pattern rejects.
C14_Witness ==
    /\ bench.fn = "name"
    /\ bench.dirName = <<"-", ".">>
    /\ \A site \in Sites : bench.names[site] = Computed(<<"-", "_">>)

\* =============================================== indexer.py _chunk_text
\* Texts are all strings of at most MaxTextLen characters over a word
\* character and the newline; chunk_size and chunk_overlap are configuration
\* values (indexer.py 111-112).
MaxTextLen == 7
MaxChunkSize == 3
MaxOverlap == 2
TextChars == {"w", "\n"}
Texts == UNION {[1..n -> TextChars] : n \in 0..MaxTextLen}

\* text.split('\n'): the pieces between newlines; the empty text is one
\* empty line.
RECURSIVE SplitLines(_)
SplitLines(text) ==
    IF text = <<>> THEN << <<>> >>
    ELSE LET rest == SplitLines(Tail(text))
         IN IF Head(text) = "\n"
            THEN << <<>> >> \o rest
            ELSE << <<Head(text)>> \o Head(rest) >> \o Tail(rest)

\* len(self.tokenizer.encode(line)): the tokenizer of the model gives one
\* token per word character, none for the empty line.
Tokens(line) == Len(line)

\* indexer.py 180-186: the locals before the loop.  current_chunk holds the
\* 1-based positions of the source lines appended to it (the code holds the
\* lines themselves); i is the index enumerate() will give next.  call
\* counts the calls on this file; first and first_text keep the result and
\* the text of the first one.
StartChunkText(text, size, overlap) ==
    [fn |-> "chunk", file_path |-> "f.py", text |-> text, chunk_size |-> size,
     chunk_overlap |-> overlap, lines |-> SplitLines(text), i |-> 0,
     current_chunk |-> <<>>, current_tokens |-> 0, start_line |-> 0,
     chunk_index |-> 0, chunks |-> <<>>, at |-> "for",
     call |-> 1, first |-> <<>>, first_text |-> <<>>]

InitChunk ==
    /\ ServerInit
    /\ \E text \in Texts, size \in 1..MaxChunkSize, overlap \in 0..MaxOverlap :
         bench = StartChunkText(text, size, overlap)

\* '\n'.join(current_chunk): the lines at the given positions, a newline
\* between two of them.
RECURSIVE JoinLines(_, _)
JoinLines(lines, positions) ==
    IF positions = <<>> THEN <<>>
    ELSE IF Len(positions) = 1 THEN lines[positions[1]]
    ELSE lines[positions[1]] \o <<"\n">> \o JoinLines(lines, Tail(positions))

\* hashlib.md5(content.encode()).hexdigest()[:8]: a digest of the characters
\* cut to a fixed number of hex digits (8 in the code, ShortHashDigits in the
\* model), so finitely many values for arbitrarily many contents.
ShortHashDigits == 1
CharCode(ch) == IF ch = "w" THEN 1 ELSE 2
RECURSIVE ContentHash(_)
ContentHash(content) ==
    IF content = <<>> THEN 13 % (16 ^ ShortHashDigits)
    ELSE (ContentHash(SubSeq(content, 1, Len(content) - 1)) * 7
            + CharCode(content[Len(content)])) % (16 ^ ShortHashDigits)

\* FileChunk(content, file_path, start_line, end_line, chunk_index) and its
\* id f"{file_path}:{chunk_index}:{content_hash}".  source is not a field of
\* the code's object: it records the positions of the lines joined into
\* content.
FileChunk(content, source, file_path, start, end, index) ==
    [content |-> content, source |-> source, file_path |-> file_path,
     start_line |-> start, end_line |-> end, chunk_index |-> index,
     id |-> <<file_path, index, ContentHash(content)>>]

\* A walk that carries over at most the last line of the closed chunk.
OverlapWalkLastLineOnly(lines, closed, j, acc) ==
    IF j = 0 THEN acc
    ELSE LET line_tokens == Tokens(lines[closed[j]])
         IN IF acc.overlap_tokens + line_tokens <= acc.chunk_overlap
            THEN [acc EXCEPT !.overlap_lines = <<closed[j]>> \o @,
                             !.overlap_tokens = @ + line_tokens,
                             !.line_tokens = line_tokens]
            ELSE [acc EXCEPT !.line_tokens = line_tokens]

\* indexer.py 204-213: the backward walk over the closed chunk, from its last
\* line (j) down; it assigns line_tokens, the variable that also holds the
\* token count of the line being placed.
RECURSIVE OverlapWalk(_, _, _, _)
OverlapWalk(lines, closed, j, acc) ==
    IF j = 0 THEN acc
    ELSE LET line_tokens == Tokens(lines[closed[j]])
         IN IF acc.overlap_tokens + line_tokens <= acc.chunk_overlap
            THEN OverlapWalk(lines, closed, j - 1,
                     [acc EXCEPT !.overlap_lines = <<closed[j]>> \o @,
                                 !.overlap_tokens = @ + line_tokens,
                                 !.line_tokens = line_tokens])
            ELSE [acc EXCEPT !.line_tokens = line_tokens]

\* indexer.py 188-191, 221-222: the line fits, or the chunk is empty.
ChunkLineAppend ==
    /\ bench.fn = "chunk" /\ bench.at = "for" /\ bench.i < Len(bench.lines)
    /\ LET line_tokens == Tokens(bench.lines[bench.i + 1])
       IN /\ ~(bench.current_tokens + line_tokens > bench.chunk_size
                 /\ bench.current_chunk # <<>>)
          /\ bench' = [bench EXCEPT !.current_chunk = Append(@, bench.i + 1),
                                    !.current_tokens = @ + line_tokens,
                                    !.i = @ + 1]
    /\ UNCHANGED serverVars

\* A variant of the close that numbers every chunk 0.
ChunkLineCloseSameIndex ==
    /\ bench.fn = "chunk" /\ bench.at = "for" /\ bench.i < Len(bench.lines)
    /\ LET i == bench.i
           line_tokens == Tokens(bench.lines[i + 1])
           walked == OverlapWalk(bench.lines, bench.current_chunk,
                                 Len(bench.current_chunk),
                                 [overlap_lines |-> <<>>, overlap_tokens |-> 0,
                                  chunk_overlap |-> bench.chunk_overlap,
                                  line_tokens |-> line_tokens])
       IN /\ bench.current_tokens + line_tokens > bench.chunk_size
          /\ bench.current_chunk # <<>>
          /\ bench' = [bench EXCEPT
                 !.chunks = Append(@, FileChunk(
                                JoinLines(bench.lines, bench.current_chunk),
                                bench.current_chunk, bench.file_path,
                                bench.start_line + 1, i, bench.chunk_index)),
                 !.current_chunk = Append(walked.overlap_lines, i + 1),
                 !.current_tokens = walked.overlap_tokens + walked.line_tokens,
                 !.start_line = i - Len(walked.overlap_lines) + 1,
                 !.i = @ + 1]
    /\ UNCHANGED serverVars

\* indexer.py 188-222: the line does not fit: the chunk is emitted with
\* start_line + 1 and end_line i, the next one is seeded with the overlap,
\* start_line becomes i - len(overlap_lines) + 1, and the line is appended
\* and counted with whatever line_tokens holds after the walk.
ChunkLineClose ==
    /\ bench.fn = "chunk" /\ bench.at = "for" /\ bench.i < Len(bench.lines)
    /\ LET i == bench.i
           line_tokens == Tokens(bench.lines[i + 1])
           walked == OverlapWalk(bench.lines, bench.current_chunk,
                                 Len(bench.current_chunk),
                                 [overlap_lines |-> <<>>, overlap_tokens |-> 0,
                                  chunk_overlap |-> bench.chunk_overlap,
                                  line_tokens |-> line_tokens])
       IN /\ bench.current_tokens + line_tokens > bench.chunk_size
          /\ bench.current_chunk # <<>>
          /\ bench' = [bench EXCEPT
                 !.chunks = Append(@, FileChunk(
                                JoinLines(bench.lines, bench.current_chunk),
                                bench.current_chunk, bench.file_path,
                                bench.start_line + 1, i, bench.chunk_index)),
                 !.current_chunk = Append(walked.overlap_lines, i + 1),
                 !.current_tokens = walked.overlap_tokens + walked.line_tokens,
                 !.start_line = i - Len(walked.overlap_lines) + 1,
                 !.chunk_index = @ + 1,
                 !.i = @ + 1]
    /\ UNCHANGED serverVars

\* A return that forgets the lines still accumulated.
ChunkFinalNoFlush ==
    /\ bench.fn = "chunk" /\ bench.at = "for" /\ bench.i = Len(bench.lines)
    /\ bench' = [bench EXCEPT !.at = "returned"]
    /\ UNCHANGED serverVars

\* indexer.py 224-232: after the loop the remaining lines are the final
\* chunk, with end_line len(lines).
ChunkFinal ==
    /\ bench.fn = "chunk" /\ bench.at = "for" /\ bench.i = Len(bench.lines)
    /\ bench' = [bench EXCEPT
           !.chunks = IF bench.current_chunk # <<>>
                      THEN Append(@, FileChunk(
                               JoinLines(bench.lines, bench.current_chunk),
                               bench.current_chunk, bench.file_path,
                               bench.start_line + 1, Len(bench.lines),
                               bench.chunk_index))
                      ELSE @,
           !.at = "returned"]
    /\ UNCHANGED serverVars

\* The file as it may be when it is chunked again: unchanged, without its
\* first character, or with a line added at either end.
Rewrites(text) ==
    {text, <<"w", "\n">> \o text, text \o <<"\n", "w">>}
        \cup (IF text = <<>> THEN {} ELSE {Tail(text)})

\* A second call that goes on numbering where the first one stopped.
ChunkAgainKeepsIndex ==
    /\ bench.fn = "chunk" /\ bench.at = "returned" /\ bench.call = 1
    /\ \E text \in Rewrites(bench.text) :
         bench' = [StartChunkText(text, bench.chunk_size, bench.chunk_overlap)
                      EXCEPT !.call = 2, !.first = bench.chunks,
                             !.first_text = bench.text,
                             !.chunk_index = bench.chunk_index]
    /\ UNCHANGED serverVars

\* indexer.py 261, 178-186: index_file chunks the file again, on the same
\* FileIndexer; every local of _chunk_text is created anew.
ChunkAgain ==
    /\ bench.fn = "chunk" /\ bench.at = "returned" /\ bench.call = 1
    /\ \E text \in Rewrites(bench.text) :
         bench' = [StartChunkText(text, bench.chunk_size, bench.chunk_overlap)
                      EXCEPT !.call = 2, !.first = bench.chunks,
                             !.first_text = bench.text]
    /\ UNCHANGED serverVars

NextChunk == ChunkLineAppend \/ ChunkLineClose \/ ChunkFinal \/ ChunkAgain

SpecChunk == InitChunk /\ [][NextChunk]_vars

\* ------------------------------------------------------------------ C15
\* C15: every emitted chunk has 1 <= start_line <= end_line <= number of
\* lines of the text.
C15_LineRangeWithinText ==
    bench.fn = "chunk" =>
        \A k \in DOMAIN bench.chunks :
            /\ 1 <= bench.chunks[k].start_line
            /\ bench.chunks[k].start_line <= bench.chunks[k].end_line
            /\ bench.chunks[k].end_line <= Len(bench.lines)

\* ------------------------------------------------------------------ C16
\* C16: start_line and end_line of every emitted chunk are the positions of
\* the first and the last source line in its content; and a chunk that
\* begins with lines carried over from the chunk before it has a start_line
\* not greater than that chunk's end_line.
C16_LineRangeIsContent ==
    bench.fn = "chunk" =>
        \A k \in DOMAIN bench.chunks :
            LET c == bench.chunks[k]
            IN /\ c.start_line = c.source[1]
               /\ c.end_line = c.source[Len(c.source)]
               /\ (k > 1 /\ c.source[1] <= bench.chunks[k - 1].source[Len(bench.chunks[k - 1].source)])
                      => c.start_line <= bench.chunks[k - 1].end_line

\* ------------------------------------------------------------------ C17
\* C17: with overlap 0 the line ranges of the chunks of a text, in chunk
\* order, are non-empty, start at line 1, end at the last line, and each
\* begins on the line after the one before it ends: every source line is
\* covered exactly once, in order.
C17_RangesPartitionLines ==
    (bench.fn = "chunk" /\ bench.chunk_overlap = 0 /\ bench.at = "returned") =>
        /\ bench.chunks # <<>>
        /\ bench.chunks[1].start_line = 1
        /\ bench.chunks[Len(bench.chunks)].end_line = Len(bench.lines)
        /\ \A k \in DOMAIN bench.chunks :
              /\ bench.chunks[k].start_line <= bench.chunks[k].end_line
              /\ k > 1 => bench.chunks[k].start_line = bench.chunks[k - 1].end_line + 1

\* ------------------------------------------------------------------ C18
\* C18: the chunk_index values of the chunks emitted for a text are
\* 0, 1, 2, ... in emission order.
C18_ChunkIndexContiguous ==
    bench.fn = "chunk" =>
        \A k \in DOMAIN bench.chunks : bench.chunks[k].chunk_index = k - 1

\* A text has been chunked into at least three chunks.
C18_Witness ==
    /\ bench.fn = "chunk" /\ bench.at = "returned"
    /\ Len(bench.chunks) >= 3
    /\ bench.chunks[3].chunk_index = 2

\* ------------------------------------------------------------------ C19
\* C19: chunking the empty text yields no chunk.
C19_EmptyTextNoChunks ==
    (bench.fn = "chunk" /\ bench.text = <<>> /\ bench.at = "returned")
        => bench.chunks = <<>>

\* ------------------------------------------------------------------ C20
\* The tokens of a chunk: those of the lines joined into its content.
RECURSIVE ContentTokens(_, _)
ContentTokens(lines, source) ==
    IF source = <<>> THEN 0
    ELSE Tokens(lines[Head(source)]) + ContentTokens(lines, Tail(source))

\* C20: when the overlap budget is smaller than the chunk size, an emitted
\* chunk all of whose lines fit the chunk size individually has at most
\* chunk_size tokens.
C20_ChunkTokenBounded ==
    (bench.fn = "chunk" /\ bench.chunk_overlap < bench.chunk_size) =>
        \A k \in DOMAIN bench.chunks :
            LET c == bench.chunks[k]
            IN (\A j \in DOMAIN c.source :
                    Tokens(bench.lines[c.source[j]]) <= bench.chunk_size)
               => ContentTokens(bench.lines, c.source) <= bench.chunk_size

\* ------------------------------------------------------------------ C21
\* C21: when _chunk_text has returned, every source line is, whole, a line
\* of the content of some emitted chunk; the lines of every chunk's content
\* are source lines in their original order; this includes the lines that
\* have more tokens than chunk_size.
C21_EveryLineEmittedWhole ==
    bench.fn = "chunk" =>
        /\ \A k \in DOMAIN bench.chunks :
              LET c == bench.chunks[k]
                  held == SplitLines(c.content)
              IN /\ Len(held) = Len(c.source)
                 /\ \A j \in DOMAIN held : held[j] = bench.lines[c.source[j]]
                 /\ \A j \in 1..(Len(c.source) - 1) : c.source[j] < c.source[j + 1]
        /\ bench.at = "returned" =>
              \A p \in DOMAIN bench.lines :
                  \E k \in DOMAIN bench.chunks :
                      \E j \in DOMAIN bench.chunks[k].source :
                          /\ bench.chunks[k].source[j] = p
                          /\ SplitLines(bench.chunks[k].content)[j] = bench.lines[p]

\* A text with a line longer than chunk_size between two other lines has
\* been chunked into several chunks.
C21_Witness ==
    /\ bench.fn = "chunk" /\ bench.at = "returned"
    /\ Len(bench.lines) >= 3
    /\ Tokens(bench.lines[2]) > bench.chunk_size
    /\ Tokens(bench.lines[1]) > 0 /\ Tokens(bench.lines[3]) > 0
    /\ Len(bench.chunks) >= 2

\* ------------------------------------------------------------------ C22
\* C22: of two consecutive chunks, the second begins with a suffix of the
\* lines of the first, in their order, whose tokens do not exceed
\* chunk_overlap and which cannot be extended by the line before it without
\* exceeding chunk_overlap; next comes the line after the first chunk's last
\* line, the one that triggered the close.
C22_OverlapIsLongestSuffix ==
    bench.fn = "chunk" =>
        \A k \in 1..(Len(bench.chunks) - 1) :
            LET closed == bench.chunks[k].source
                next == bench.chunks[k + 1].source
                trigger == closed[Len(closed)] + 1
                m == Cardinality({j \in DOMAIN next : next[j] < trigger})
            IN /\ m <= Len(closed)
               /\ \A j \in 1..m : next[j] = closed[Len(closed) - m + j]
               /\ Len(next) > m /\ next[m + 1] = trigger
               /\ ContentTokens(bench.lines, SubSeq(next, 1, m)) <= bench.chunk_overlap
               /\ m < Len(closed) =>
                     ContentTokens(bench.lines,
                                   SubSeq(closed, Len(closed) - m, Len(closed)))
                         > bench.chunk_overlap

\* A closed chunk of three lines has handed its last two, and not its
\* first, to the next chunk.
C22_Witness ==
    /\ bench.fn = "chunk" /\ bench.at = "returned"
    /\ Len(bench.chunks) >= 2
    /\ bench.chunks[1].source = <<1, 2, 3>>
    /\ SubSeq(bench.chunks[2].source, 1, 3) = <<2, 3, 4>>

MaxHits == 3          \* hits the store ranks for one query
MaxLimit == 2         \* largest limit a caller passes
default_limit == 2    \* config 'search_limit'

SearchPaths == {<<"s", "a">>, <<"t", "a">>}
SearchPatterns == {<<>>, <<"s">>, <<"a">>}
Scores == {40, 50, 80}
Thresholds == {50, 70}

Min2(a, b) == IF a <= b THEN a ELSE b
Max2(a, b) == IF a >= b THEN a ELSE b

Ranked(hits) ==
    \A i \in 1..(Len(hits) - 1) : hits[i].score >= hits[i + 1].score

HitLists(universe, n) ==
    {hits \in UNION {[1..k -> universe] : k \in 0..n} : Ranked(hits)}

SearchHits ==
    [file_path : SearchPaths, start_line : {1}, end_line : {1}, score : Scores]

\* Python's `pattern in path`
Contains(pattern, path) ==
    \E i \in 0..(Len(path) - Len(pattern)) :
        SubSeq(path, i + 1, i + Len(pattern)) = pattern

\* vectordb.py 113-148: the n_results best hits, or [] when the query fails
VectorSearch(hits, limit, ok) ==
    IF ok /\ limit > 0 THEN SubSeq(hits, 1, Min2(limit, Len(hits))) ELSE <<>>

\* search.py 48: `limit or self.default_limit`; <<>> stands for None
LimitOrDefault(limit) ==
    IF limit = <<>> \/ limit[1] = 0 THEN default_limit ELSE limit[1]

\* search.py 53-57
PatternFilter(results, file_path_pattern) ==
    IF file_path_pattern # <<>>
    THEN SelectSeq(results, LAMBDA r : Contains(file_path_pattern, r.file_path))
    ELSE results

\* search.py 60-78
RECURSIVE FormatResults(_, _, _, _)
FormatResults(results, similarity_threshold, i, formatted_results) ==
    IF i > Len(results) THEN formatted_results
    ELSE IF results[i].score < similarity_threshold
         THEN FormatResults(results, similarity_threshold, i + 1, formatted_results)
         ELSE FormatResults(results, similarity_threshold, i + 1,
                            Append(formatted_results, results[i]))

StartSearch(hits, limit, pattern, threshold) ==
    [fn |-> "search", hits |-> hits, limit |-> limit,
     file_path_pattern |-> pattern, similarity_threshold |-> threshold,
     at |-> "embed", fetched |-> <<>>, results |-> <<>>,
     formatted_results |-> <<>>, failed |-> "none", outcome |-> "running"]

InitSearch ==
    /\ ServerInit
    /\ \E hits \in HitLists(SearchHits, MaxHits),
          limit \in {<<>>} \cup {<<n>> : n \in 0..MaxLimit},
          pattern \in SearchPatterns, threshold \in Thresholds :
         bench = StartSearch(hits, limit, pattern, threshold)

\* search.py 82-84 reached from line 38, with the exception let through
SearchEmbedPropagates ==
    /\ bench.fn = "search" /\ bench.at = "embed"
    /\ \/ bench' = [bench EXCEPT !.at = "query"]
       \/ bench' = [bench EXCEPT !.at = "done", !.failed = "embed",
                                 !.outcome = "raised"]
    /\ UNCHANGED serverVars

\* search.py 36-38, 82-84: the embedding is generated, or generate raises
\* and the handler returns []
SearchEmbed ==
    /\ bench.fn = "search" /\ bench.at = "embed"
    /\ \/ bench' = [bench EXCEPT !.at = "query"]
       \/ bench' = [bench EXCEPT !.at = "done", !.failed = "embed",
                                 !.formatted_results = <<>>,
                                 !.outcome = "returned"]
    /\ UNCHANGED serverVars

\* search.py 46-50 with vectordb.py 113-148
SearchQuery ==
    /\ bench.fn = "search" /\ bench.at = "query"
    /\ \E ok \in BOOLEAN :
         LET got == VectorSearch(bench.hits, LimitOrDefault(bench.limit), ok)
         IN  bench' = [bench EXCEPT !.at = "filter", !.fetched = got,
                                    !.results = got,
                                    !.failed = IF ok THEN "none" ELSE "store"]
    /\ UNCHANGED serverVars

\* search.py 53-57
SearchFilter ==
    /\ bench.fn = "search" /\ bench.at = "filter"
    /\ bench' = [bench EXCEPT !.at = "format",
                   !.results = PatternFilter(bench.results, bench.file_path_pattern)]
    /\ UNCHANGED serverVars

\* search.py 60-80
SearchFormat ==
    /\ bench.fn = "search" /\ bench.at = "format"
    /\ bench' = [bench EXCEPT !.at = "done", !.outcome = "returned",
                   !.formatted_results =
                       FormatResults(bench.results, bench.similarity_threshold,
                                     1, <<>>)]
    /\ UNCHANGED serverVars

NextSearch == SearchEmbed \/ SearchQuery \/ SearchFilter \/ SearchFormat

SpecSearch == InitSearch /\ [][NextSearch]_vars

\* C24: search returns exactly the hits the store returned whose score is at
\* least the threshold and, when a pattern is given, whose path contains the
\* pattern, in the store's order, and never more results than the limit the
\* caller requested (the configured default when the caller passed none).
RequestedLimit == IF bench.limit = <<>> THEN default_limit ELSE bench.limit[1]

C24_FilteredHitsWithinLimit ==
    (bench.fn = "search" /\ bench.at = "done" /\ bench.failed = "none") =>
        /\ bench.formatted_results =
             SelectSeq(bench.fetched,
                       LAMBDA h : /\ h.score >= bench.similarity_threshold
                                  /\ (bench.file_path_pattern # <<>> =>
                                        Contains(bench.file_path_pattern, h.file_path)))
        /\ Len(bench.formatted_results) <= RequestedLimit

\* C28: when embedding generation or the store query fails, search returns
\* normally and its result list is empty.
C28_FailureYieldsEmptyList ==
    (bench.fn = "search" /\ bench.at = "done" /\ bench.failed # "none") =>
        bench.outcome = "returned" /\ bench.formatted_results = <<>>

C28_Witness ==
    /\ bench.fn = "search" /\ bench.at = "done" /\ bench.failed = "embed"
    /\ \E i \in 1..Len(bench.hits) :
         bench.hits[i].score >= bench.similarity_threshold
\* ------------------------------------------------------------------
\* SearchEngine.semantic_code_search (search.py 235-291)

MaxRawHits == 3               \* hits the store ranks for one semantic query
FileLength == 50              \* lines of an indexed file on disk
similarity_threshold == 50    \* search.py 26

\* line ranges of stored chunks: ordinary ones, the ranges with
\* start_line = end_line + 1 that _chunk_text records for a one-line chunk,
\* and three long ones
MergeRanges ==
    {<<1, 1>>, <<1, 2>>, <<3, 2>>, <<3, 3>>, <<1, 10>>, <<8, 18>>, <<40, 50>>}
ContextLines == {0, 1, 5}

SemanticHits ==
    {[file_path |-> "f.py", start_line |-> r[1], end_line |-> r[2], score |-> 85] :
        r \in MergeRanges}
    \cup {[file_path |-> "f.py", start_line |-> r[1], end_line |-> r[2], score |-> 90] :
        r \in {<<1, 2>>, <<3, 3>>, <<1, 10>>}}
    \cup {[file_path |-> "g.py", start_line |-> 1, end_line |-> 2, score |-> 85]}

\* search.py 28-84 as one call
SearchCall(hits, limit, pattern, threshold, embedOk, storeOk) ==
    IF ~embedOk THEN <<>>
    ELSE FormatResults(
             PatternFilter(VectorSearch(hits, LimitOrDefault(limit), storeOk),
                           pattern),
             threshold, 1, <<>>)

\* list.sort(key=...): ascending by key, equal keys keep their order
StableSort(seq, keys) ==
    LET n == Len(seq)
        pos(i) == 1 + Cardinality({j \in 1..n :
                          keys[j] < keys[i] \/ (keys[j] = keys[i] /\ j < i)})
    IN  [p \in 1..n |-> seq[CHOOSE i \in 1..n : pos(i) = p]]

\* search.py 246-248: a defaultdict keeps its keys in order of first insertion
RECURSIVE GroupPaths(_, _, _)
GroupPaths(results, i, paths) ==
    IF i > Len(results) THEN paths
    ELSE IF \E k \in 1..Len(paths) : paths[k] = results[i].file_path
         THEN GroupPaths(results, i + 1, paths)
         ELSE GroupPaths(results, i + 1, Append(paths, results[i].file_path))

GroupByFile(results) ==
    LET paths == GroupPaths(results, 1, <<>>)
    IN  [k \in 1..Len(paths) |->
            [file_path |-> paths[k],
             chunks |-> SelectSeq(results, LAMBDA r : r.file_path = paths[k])]]

\* search.py 262, 269: chunk.copy(); `from` records which sorted hits the
\* merged chunk absorbed and `read` whether its context has been read
CopyChunk(chunk, i) ==
    [file_path |-> chunk.file_path, start_line |-> chunk.start_line,
     end_line |-> chunk.end_line, score |-> chunk.score,
     from |-> {i}, context |-> <<>>, read |-> "none"]

\* search.py 265-266 with only the new hit's values kept
MergeIntoKeepsLast(current_chunk, chunk, i) ==
    [current_chunk EXCEPT
        !.end_line = chunk.end_line,
        !.score = chunk.score,
        !.from = @ \cup {i}]

\* search.py 265-266
MergeInto(current_chunk, chunk, i) ==
    [current_chunk EXCEPT
        !.end_line = Max2(current_chunk.end_line, chunk.end_line),
        !.score = Max2(current_chunk.score, chunk.score),
        !.from = @ \cup {i}]

\* search.py 257-272; current_chunk is <<>> for None
RECURSIVE MergeChunks(_, _, _, _, _)
MergeChunks(chunks, context_lines, i, current_chunk, merged_chunks) ==
    IF i > Len(chunks)
    THEN IF current_chunk # <<>> THEN Append(merged_chunks, current_chunk[1])
                                 ELSE merged_chunks
    ELSE IF current_chunk = <<>>
         THEN MergeChunks(chunks, context_lines, i + 1,
                          <<CopyChunk(chunks[i], i)>>, merged_chunks)
         ELSE IF chunks[i].start_line <= current_chunk[1].end_line + context_lines
              THEN MergeChunks(chunks, context_lines, i + 1,
                               <<MergeInto(current_chunk[1], chunks[i], i)>>,
                               merged_chunks)
              ELSE MergeChunks(chunks, context_lines, i + 1,
                               <<CopyChunk(chunks[i], i)>>,
                               Append(merged_chunks, current_chunk[1]))

\* search.py 309-317: the 1-based line ranges of 'before', 'chunk' and 'after'
ChunkContext(start_line, end_line, context_lines) ==
    LET context_start == Max2(0, start_line - context_lines - 1)
        context_end == Min2(FileLength, end_line + context_lines)
    IN  <<<<context_start + 1, start_line - 1>>,
          <<start_line, Min2(end_line, FileLength)>>,
          <<end_line + 1, context_end>>>>

StartSemantic(hits, context_lines) ==
    [fn |-> "semantic", hits |-> hits, context_lines |-> context_lines,
     at |-> "search", initial_results |-> <<>>, file_groups |-> <<>>,
     k |-> 1, chunks |-> <<>>, merged_chunks |-> <<>>, j |-> 1,
     enhanced_results |-> <<>>, returned |-> <<>>, outcome |-> "running"]

InitSemantic ==
    /\ ServerInit
    /\ \E hits \in HitLists(SemanticHits, MaxRawHits),
          context_lines \in ContextLines :
         bench = StartSemantic(hits, context_lines)

\* search.py 243-248
SemSearch ==
    /\ bench.fn = "semantic" /\ bench.at = "search"
    /\ \E embedOk \in BOOLEAN, storeOk \in BOOLEAN :
         LET initial_results ==
                 SearchCall(bench.hits, <<default_limit * 2>>, <<>>,
                            similarity_threshold, embedOk, storeOk)
         IN  bench' = [bench EXCEPT !.at = "merge",
                                    !.initial_results = initial_results,
                                    !.file_groups = GroupByFile(initial_results)]
    /\ UNCHANGED serverVars

\* search.py 252-272 for the k-th file
SemMerge ==
    /\ bench.fn = "semantic" /\ bench.at = "merge"
    /\ bench.k <= Len(bench.file_groups)
    /\ LET group == bench.file_groups[bench.k].chunks
           chunks == StableSort(group, [i \in 1..Len(group) |-> group[i].start_line])
       IN  bench' = [bench EXCEPT
                        !.at = "context", !.j = 1, !.chunks = chunks,
                        !.merged_chunks =
                            MergeChunks(chunks, bench.context_lines, 1, <<>>, <<>>)]
    /\ UNCHANGED serverVars

\* search.py 275-281 with a read failure ending the whole query
SemContextFailsQuery ==
    /\ bench.fn = "semantic" /\ bench.at = "context"
    /\ bench.j <= Len(bench.merged_chunks)
    /\ LET chunk == bench.merged_chunks[bench.j]
       IN  \/ bench' = [bench EXCEPT
                  !.j = @ + 1,
                  !.merged_chunks[bench.j].read = "ok",
                  !.merged_chunks[bench.j].context =
                      ChunkContext(chunk.start_line, chunk.end_line,
                                   bench.context_lines)]
           \/ bench' = [bench EXCEPT !.at = "done", !.returned = <<>>,
                                     !.outcome = "returned"]
    /\ UNCHANGED serverVars

\* search.py 275-281 with 293-321 for the j-th merged chunk of the file: the
\* file is read, or it is missing or unreadable and the context is {}
SemContext ==
    /\ bench.fn = "semantic" /\ bench.at = "context"
    /\ bench.j <= Len(bench.merged_chunks)
    /\ LET chunk == bench.merged_chunks[bench.j]
       IN  \/ bench' = [bench EXCEPT
                  !.j = @ + 1,
                  !.merged_chunks[bench.j].read = "ok",
                  !.merged_chunks[bench.j].context =
                      ChunkContext(chunk.start_line, chunk.end_line,
                                   bench.context_lines)]
           \/ bench' = [bench EXCEPT
                  !.j = @ + 1,
                  !.merged_chunks[bench.j].read = "failed",
                  !.merged_chunks[bench.j].context = <<>>]
    /\ UNCHANGED serverVars

\* search.py 283
SemExtend ==
    /\ bench.fn = "semantic" /\ bench.at = "context"
    /\ bench.j > Len(bench.merged_chunks)
    /\ bench' = [bench EXCEPT
                    !.at = "merge", !.k = @ + 1,
                    !.enhanced_results = @ \o bench.merged_chunks]
    /\ UNCHANGED serverVars

\* search.py 286-287
SemReturn ==
    /\ bench.fn = "semantic" /\ bench.at = "merge"
    /\ bench.k > Len(bench.file_groups)
    /\ LET e == bench.enhanced_results
           sorted == StableSort(e, [i \in 1..Len(e) |-> 0 - e[i].score])
       IN  bench' = [bench EXCEPT
                        !.at = "done", !.outcome = "returned",
                        !.returned = SubSeq(sorted, 1, Min2(default_limit, Len(sorted)))]
    /\ UNCHANGED serverVars

NextSemantic == SemSearch \/ SemMerge \/ SemContext \/ SemExtend \/ SemReturn

SpecSemantic == InitSemantic /\ [][NextSemantic]_vars

\* C25: the merged results of one file, before truncation, are sorted by
\* start line, consecutive ones are more than contextLines apart, and the
\* line range of every raw hit of the file lies inside exactly one of them.
Inside(hit, merged) ==
    merged.start_line <= hit.start_line /\ hit.end_line <= merged.end_line

C25_MergedSortedSeparatedCovering ==
    (bench.fn = "semantic" /\ bench.at = "context") =>
        LET m == bench.merged_chunks
        IN  /\ \A a \in 1..Len(m), b \in 1..Len(m) :
                   a < b => m[a].start_line <= m[b].start_line
            /\ \A a \in 1..(Len(m) - 1) :
                   m[a + 1].start_line > m[a].end_line + bench.context_lines
            /\ \A i \in 1..Len(bench.chunks) :
                   Cardinality({a \in 1..Len(m) : Inside(bench.chunks[i], m[a])}) = 1

\* C26: a merged result spans from the smallest start line to the largest end
\* line of the hits merged into it and carries their maximum score; the hits
\* 1-10 (.90) and 8-18 (.85) with contextLines 5 give 1-18 (.90) and a hit
\* at 40-50 stays a result of its own.
LeastOf(S) == CHOOSE x \in S : \A y \in S : x <= y
GreatestOf(S) == CHOOSE x \in S : \A y \in S : x >= y

ScenarioHits ==
    {[file_path |-> "f.py", start_line |-> 1, end_line |-> 10, score |-> 90],
     [file_path |-> "f.py", start_line |-> 8, end_line |-> 18, score |-> 85],
     [file_path |-> "f.py", start_line |-> 40, end_line |-> 50, score |-> 85]}

IsScenario ==
    /\ bench.context_lines = 5
    /\ {bench.chunks[i] : i \in 1..Len(bench.chunks)} = ScenarioHits
    /\ Len(bench.chunks) = 3

C26_MergedSpanAndMaxScore ==
    (bench.fn = "semantic" /\ bench.at = "context") =>
        LET m == bench.merged_chunks
            c == bench.chunks
        IN  /\ \A a \in 1..Len(m) :
                 /\ m[a].start_line = LeastOf({c[i].start_line : i \in m[a].from})
                 /\ m[a].end_line = GreatestOf({c[i].end_line : i \in m[a].from})
                 /\ m[a].score = GreatestOf({c[i].score : i \in m[a].from})
            /\ IsScenario =>
                 /\ Len(m) = 2
                 /\ <<m[1].start_line, m[1].end_line, m[1].score>> = <<1, 18, 90>>
                 /\ <<m[2].start_line, m[2].end_line, m[2].score>> = <<40, 50, 85>>

C26_Witness ==
    bench.fn = "semantic" /\ bench.at = "context" /\ IsScenario

\* C29: a merged result whose file could not be read is returned with an
\* empty context, every other returned result carries the context of its own
\* range, and no result is lost from the answer because of the failed read.
C29_FailedReadEmptiesOneContext ==
    (bench.fn = "semantic" /\ bench.at = "done") =>
        /\ bench.outcome = "returned"
        /\ Len(bench.returned) = Min2(default_limit, Len(bench.enhanced_results))
        /\ \A a \in 1..Len(bench.returned) :
             LET r == bench.returned[a]
             IN  /\ r.read = "failed" => r.context = <<>>
                 /\ r.read = "ok" =>
                      r.context = <<<<Max2(1, r.start_line - bench.context_lines),
                                      r.start_line - 1>>,
                                    <<r.start_line, r.end_line>>,
                                    <<r.end_line + 1,
                                      Min2(FileLength, r.end_line + bench.context_lines)>>>>

C29_Witness ==
    /\ bench.fn = "semantic" /\ bench.at = "done"
    /\ \E a \in 1..Len(bench.returned), b \in 1..Len(bench.returned) :
         /\ bench.returned[a].read = "failed"
         /\ bench.returned[b].read = "ok"
\* ------------------------------------------------------------------
\* SearchEngine.find_similar_files (search.py 131-183)

MaxSimilarHits == 4     \* hits the store ranks for the file's embedding

SourceFile == "src.py"
SimilarHits ==
    [file_path : {SourceFile, "a.py", "b.py"}, score : {80, 85, 90}]

RECURSIVE SumOf(_)
SumOf(scores) ==
    IF scores = <<>> THEN 0 ELSE scores[1] + SumOf(Tail(scores))

RECURSIVE Factorial(_)
Factorial(n) == IF n <= 1 THEN 1 ELSE n * Factorial(n - 1)

\* search.py 170: sum(scores) / len(scores), kept exact as the integer
\* mean * MaxSimilarHits!  (every list has at most MaxSimilarHits scores)
Average(scores) ==
    (SumOf(scores) * Factorial(MaxSimilarHits)) \div Len(scores)

\* search.py 160-165 without the test against the source path
FileScoresKeepsSource(results, source) ==
    LET kept == SelectSeq(results, LAMBDA r : r.file_path # "")
        groups == GroupByFile(kept)
    IN  [k \in 1..Len(groups) |->
            [file_path |-> groups[k].file_path,
             scores |-> [i \in 1..Len(groups[k].chunks) |->
                            groups[k].chunks[i].score]]]

\* search.py 160-165: the scores of every other file, files in order of
\* their first hit
FileScores(results, source) ==
    LET kept == SelectSeq(results,
                          LAMBDA r : r.file_path # "" /\ r.file_path # source)
        groups == GroupByFile(kept)
    IN  [k \in 1..Len(groups) |->
            [file_path |-> groups[k].file_path,
             scores |-> [i \in 1..Len(groups[k].chunks) |->
                            groups[k].chunks[i].score]]]

StartSimilar(hits, limit) ==
    [fn |-> "similar", file_path |-> SourceFile, hits |-> hits, limit |-> limit,
     at |-> "read", results |-> <<>>, file_scores |-> <<>>,
     similar_files |-> <<>>, returned |-> <<>>, failed |-> "none",
     outcome |-> "running"]

InitSimilar ==
    /\ ServerInit
    /\ \E hits \in HitLists(SimilarHits, MaxSimilarHits), limit \in 0..MaxLimit :
         bench = StartSimilar(hits, limit)

\* search.py 138-151, 181-183: the file is read and embedded, or it is
\* missing, unreadable or not embeddable and the call returns []
SimRead ==
    /\ bench.fn = "similar" /\ bench.at = "read"
    /\ \/ bench' = [bench EXCEPT !.at = "query"]
       \/ \E why \in {"missing", "read", "embed"} :
            bench' = [bench EXCEPT !.at = "done", !.failed = why,
                                   !.returned = <<>>, !.outcome = "returned"]
    /\ UNCHANGED serverVars

\* search.py 154-157
SimQuery ==
    /\ bench.fn = "similar" /\ bench.at = "query"
    /\ \E ok \in BOOLEAN :
         bench' = [bench EXCEPT
                      !.at = "aggregate",
                      !.failed = IF ok THEN "none" ELSE "store",
                      !.results = VectorSearch(bench.hits, bench.limit * 3, ok)]
    /\ UNCHANGED serverVars

\* search.py 160-175
SimAggregate ==
    /\ bench.fn = "similar" /\ bench.at = "aggregate"
    /\ LET file_scores == FileScores(bench.results, bench.file_path)
       IN  bench' = [bench EXCEPT
                        !.at = "sort",
                        !.file_scores = file_scores,
                        !.similar_files =
                            [k \in 1..Len(file_scores) |->
                                [path |-> file_scores[k].file_path,
                                 similarity |-> Average(file_scores[k].scores)]]]
    /\ UNCHANGED serverVars

\* search.py 178-179
SimReturn ==
    /\ bench.fn = "similar" /\ bench.at = "sort"
    /\ LET f == bench.similar_files
           sorted == StableSort(f, [i \in 1..Len(f) |-> 0 - f[i].similarity])
       IN  bench' = [bench EXCEPT
                        !.at = "done", !.outcome = "returned",
                        !.returned = SubSeq(sorted, 1, Min2(bench.limit, Len(sorted)))]
    /\ UNCHANGED serverVars

NextSimilar == SimRead \/ SimQuery \/ SimAggregate \/ SimReturn

SpecSimilar == InitSimilar /\ [][NextSimilar]_vars

\* C27: find_similar_files returns the reference aggregation of the fetched
\* hits: the files other than the source, each once, each with the
\* arithmetic mean of its hits' scores, in descending order of mean with
\* ties in order of first hit, cut to the `limit` best.
OtherFiles ==
    {bench.results[i].file_path : i \in 1..Len(bench.results)} \ {bench.file_path}

HitsOf(file) == {i \in 1..Len(bench.results) : bench.results[i].file_path = file}

FirstHit(file) == LeastOf(HitsOf(file))

RECURSIVE TotalScore(_)
TotalScore(indices) ==
    IF indices = {} THEN 0
    ELSE LET i == CHOOSE x \in indices : TRUE
         IN  bench.results[i].score + TotalScore(indices \ {i})

\* mean(a) > mean(b), or the means are equal and a was hit first
RanksBefore(a, b) ==
    LET ta == TotalScore(HitsOf(a)) * Cardinality(HitsOf(b))
        tb == TotalScore(HitsOf(b)) * Cardinality(HitsOf(a))
    IN  ta > tb \/ (ta = tb /\ FirstHit(a) < FirstHit(b))

AllFiles ==
    << <<<<"r">>, <<"s">>, <<"a", ".", "p", "y">>>>,
       <<<<"r">>, <<"s">>, <<"b", ".", "P", "Y">>>>,
       <<<<"r">>, <<"n", "m">>, <<"a", ".", "p", "y">>>>,
       <<<<"r">>, <<"s">>, <<"c", ".", "m", "d">>>>,
       <<<<"r">>, <<"a", ".", "p", "y">>>>,
       <<<<"r">>, <<"b">>, <<"c", ".", "m", "d">>>> >>

ExtensionSets ==
    {{<<".", "p", "y">>}, {<<".", "P", "Y">>, <<".", "m", "d">>}, {<<".", "m", "d">>}}
ExcludeSets == {{}, {<<"n", "m">>}, {<<"*", "m">>, <<"b">>}}
IgnoreFiles ==
    {{}, {<<"b", "/">>, <<>>}, {<<"c", ".", "*">>, <<"#", "s">>}, {<<"s">>}}

\* str.lower() on the letters that occur
Lower(name) ==
    [i \in 1..Len(name) |->
        CASE name[i] = "P" -> "p" [] name[i] = "Y" -> "y" [] OTHER -> name[i]]

\* fnmatch.fnmatch on POSIX: case-sensitive, `*` matches any run of characters
RECURSIVE Fnmatch(_, _)
Fnmatch(name, pat) ==
    IF pat = <<>> THEN name = <<>>
    ELSE IF pat[1] = "*"
         THEN Fnmatch(name, Tail(pat)) \/ (name # <<>> /\ Fnmatch(Tail(name), pat))
         ELSE name # <<>> /\ name[1] = pat[1] /\ Fnmatch(Tail(name), Tail(pat))

\* PurePath.suffix: from the last dot of the name, '' when there is none or
\* the name starts or ends with it
Suffix(name) ==
    LET dots == {i \in 2..(Len(name) - 1) : name[i] = "."}
    IN  IF dots = {} THEN <<>>
        ELSE SubSeq(name, CHOOSE i \in dots : \A j \in dots : j <= i, Len(name))

\* str.rstrip('/')
RECURSIVE RstripSlash(_)
RstripSlash(pattern) ==
    IF pattern # <<>> /\ pattern[Len(pattern)] = "/"
    THEN RstripSlash(SubSeq(pattern, 1, Len(pattern) - 1))
    ELSE pattern

\* discovery.py 75-82
LoadIgnorePatterns(lines) ==
    {line \in lines : line # <<>> /\ line[1] # "#"}

\* discovery.py 44-53
IsExcludedParts(path, exclude_dir_patterns) ==
    \E k \in 1..Len(path) : \E pat \in exclude_dir_patterns : Fnmatch(path[k], pat)

\* discovery.py 94-110
ShouldIgnore(p, ignore_patterns) ==
    \E pattern \in ignore_patterns :
        \/ Fnmatch(p[Len(p)], pattern)
        \/ \E k \in 1..Len(p) : Fnmatch(p[k], RstripSlash(pattern))

\* discovery.py 85-119
RECURSIVE Finalize(_, _, _, _, _, _)
Finalize(paths, i, out, enabled, excludes, ignore_patterns) ==
    IF i > Len(paths) THEN out
    ELSE LET p == paths[i]
         IN  IF IsExcludedParts(p, excludes)
             THEN Finalize(paths, i + 1, out, enabled, excludes, ignore_patterns)
             ELSE IF ShouldIgnore(p, ignore_patterns)
                  THEN Finalize(paths, i + 1, out, enabled, excludes, ignore_patterns)
                  ELSE IF Lower(Suffix(p[Len(p)])) \in enabled
                       THEN Finalize(paths, i + 1, Append(out, p), enabled,
                                     excludes, ignore_patterns)
                       ELSE Finalize(paths, i + 1, out, enabled, excludes,
                                     ignore_patterns)

\* discovery.py 122-127, 165-170: dir_path.rglob("*" + ext) for every enabled ext
Rglob(enabled) ==
    SelectSeq(AllFiles,
              LAMBDA p : \E ext \in enabled : Fnmatch(p[Len(p)], <<"*">> \o ext))

\* what an external tool prints: any of the files, in directory order
ToolOutputs == {SelectSeq(AllFiles, LAMBDA p : p \in S) :
                    S \in SUBSET {AllFiles[i] : i \in 1..Len(AllFiles)}}

\* what became of one external tool: "missing" (shutil.which found nothing),
\* "no_marker" (find without an existing timestamp file), "raised"
\* (subprocess.run raised), "failed" (non-zero exit), "empty" (no output),
\* "output"
ToolRuns == {"raised", "failed", "empty", "output"}

StartDiscover(enabled_extensions, exclude_dirs, ignore_file, within, fd, find, marker) ==
    [fn |-> "discover",
     enabled_extensions |-> enabled_extensions,
     enabled |-> {Lower(e) : e \in enabled_extensions},
     excludes |-> exclude_dirs,
     ignore_file |-> ignore_file,
     ignore_patterns |-> {},
     changed_within_seconds |-> within, fd |-> fd, find |-> find,
     since_timestamp_file |-> marker,
     at |-> "load", strategy |-> "none", fd_result |-> "untried",
     find_result |-> "untried", raw |-> <<>>, out |-> <<>>,
     outcome |-> "running"]

InitDiscover ==
    /\ ServerInit
    /\ \E enabled_extensions \in ExtensionSets, exclude_dirs \in ExcludeSets,
          ignore_file \in IgnoreFiles, within \in {"None", "delta"},
          fd \in BOOLEAN, find \in BOOLEAN,
          marker \in {"None", "absent", "exists"} :
         bench = StartDiscover(enabled_extensions, exclude_dirs, ignore_file,
                               within, fd, find, marker)

\* discovery.py 70-83: the ignore file is read outside any try; when it
\* exists and cannot be read or decoded, the exception leaves discover_files
DiscoverLoad ==
    /\ bench.fn = "discover" /\ bench.at = "load"
    /\ \/ bench' = [bench EXCEPT
                       !.at = "start",
                       !.ignore_patterns = LoadIgnorePatterns(bench.ignore_file)]
       \/ /\ bench.ignore_file # {}
          /\ bench' = [bench EXCEPT !.at = "done", !.outcome = "raised"]
    /\ UNCHANGED serverVars

\* discovery.py 121-130
DiscoverStart ==
    /\ bench.fn = "discover" /\ bench.at = "start"
    /\ IF bench.changed_within_seconds = "None"
       THEN bench' = [bench EXCEPT !.at = "finalize", !.strategy = "full",
                                   !.raw = Rglob(bench.enabled)]
       ELSE bench' = [bench EXCEPT !.at = "fd"]
    /\ UNCHANGED serverVars

\* discovery.py 132-144 with fd's output returned as printed
DiscoverFdUnfiltered ==
    /\ bench.fn = "discover" /\ bench.at = "fd"
    /\ IF bench.fd
       THEN \E printed \in ToolOutputs, run \in ToolRuns :
              /\ (run = "output") = (printed # <<>>)
              /\ IF run = "output"
                 THEN bench' = [bench EXCEPT !.at = "done", !.strategy = "fd",
                                             !.fd_result = run,
                                             !.outcome = "returned",
                                             !.raw = printed, !.out = printed]
                 ELSE bench' = [bench EXCEPT !.at = "find", !.fd_result = run]
       ELSE bench' = [bench EXCEPT !.at = "find", !.fd_result = "missing"]
    /\ UNCHANGED serverVars

\* discovery.py 132-144: fd is used when installed and it exits with 0 and
\* prints something; otherwise the next strategy is tried
DiscoverFd ==
    /\ bench.fn = "discover" /\ bench.at = "fd"
    /\ IF bench.fd
       THEN \E printed \in ToolOutputs, run \in ToolRuns :
              /\ (run = "output") = (printed # <<>>)
              /\ IF run = "output"
                 THEN bench' = [bench EXCEPT !.at = "finalize", !.strategy = "fd",
                                             !.fd_result = run, !.raw = printed]
                 ELSE bench' = [bench EXCEPT !.at = "find", !.fd_result = run]
       ELSE bench' = [bench EXCEPT !.at = "find", !.fd_result = "missing"]
    /\ UNCHANGED serverVars

\* discovery.py 147-161 with an exception of subprocess.run let through
DiscoverFindRaises ==
    /\ bench.fn = "discover" /\ bench.at = "find"
    /\ IF ~bench.find
       THEN bench' = [bench EXCEPT !.at = "fallback", !.find_result = "missing"]
       ELSE IF bench.since_timestamp_file # "exists"
       THEN bench' = [bench EXCEPT !.at = "fallback", !.find_result = "no_marker"]
       ELSE \E printed \in ToolOutputs, run \in ToolRuns :
              /\ (run = "output") = (printed # <<>>)
              /\ IF run = "output"
                 THEN bench' = [bench EXCEPT !.at = "finalize", !.strategy = "find",
                                             !.find_result = run, !.raw = printed]
                 ELSE IF run = "raised"
                 THEN bench' = [bench EXCEPT !.at = "done", !.find_result = run,
                                             !.outcome = "raised"]
                 ELSE bench' = [bench EXCEPT !.at = "fallback", !.find_result = run]
    /\ UNCHANGED serverVars

\* discovery.py 147-161: find runs only when the tool is installed and a
\* timestamp file is given and exists; it is used when it exits with 0 and
\* prints something.  (GNU find rejects the '\(' argument of line 155 and
\* exits with 1; a find that accepts it prints the newer files.)
DiscoverFind ==
    /\ bench.fn = "discover" /\ bench.at = "find"
    /\ IF ~bench.find
       THEN bench' = [bench EXCEPT !.at = "fallback", !.find_result = "missing"]
       ELSE IF bench.since_timestamp_file # "exists"
       THEN bench' = [bench EXCEPT !.at = "fallback", !.find_result = "no_marker"]
       ELSE \E printed \in ToolOutputs, run \in ToolRuns :
              /\ (run = "output") = (printed # <<>>)
              /\ IF run = "output"
                 THEN bench' = [bench EXCEPT !.at = "finalize", !.strategy = "find",
                                             !.find_result = run, !.raw = printed]
                 ELSE bench' = [bench EXCEPT !.at = "fallback", !.find_result = run]
    /\ UNCHANGED serverVars

\* discovery.py 164-178: the files of the full scan modified within the window
DiscoverFallback ==
    /\ bench.fn = "discover" /\ bench.at = "fallback"
    /\ \E recent \in ToolOutputs :
         /\ \A i \in 1..Len(recent) :
                \E k \in 1..Len(Rglob(bench.enabled)) : Rglob(bench.enabled)[k] = recent[i]
         /\ bench' = [bench EXCEPT !.at = "finalize", !.strategy = "mtime",
                                   !.raw = recent]
    /\ UNCHANGED serverVars

\* discovery.py 85-119, 128, 142, 159, 178
DiscoverFinalize ==
    /\ bench.fn = "discover" /\ bench.at = "finalize"
    /\ bench' = [bench EXCEPT
                    !.at = "done", !.outcome = "returned",
                    !.out = Finalize(bench.raw, 1, <<>>, bench.enabled,
                                     bench.excludes, bench.ignore_patterns)]
    /\ UNCHANGED serverVars

NextDiscover ==
    \/ DiscoverLoad \/ DiscoverStart \/ DiscoverFd \/ DiscoverFind
    \/ DiscoverFallback \/ DiscoverFinalize

SpecDiscover == InitDiscover /\ [][NextDiscover]_vars

\* C30: whatever strategy produced the candidates, every returned path has an
\* enabled extension (letter case aside), no segment that matches an exclude
\* pattern, and neither its file name nor any segment matches a pattern of
\* the ignore file.
SameIgnoringCase(a, b) == Lower(a) = Lower(b)

C30_ReturnedPathsPassAllFilters ==
    (bench.fn = "discover" /\ bench.at = "done") =>
        \A i \in 1..Len(bench.out) :
            LET p == bench.out[i]
                name == p[Len(p)]
                segments == {p[k] : k \in 1..Len(p)}
                patterns == {l \in bench.ignore_file : l # <<>> /\ Head(l) # "#"}
            IN  /\ \E ext \in bench.enabled_extensions :
                     /\ Len(name) > Len(ext)
                     /\ SameIgnoringCase(
                            SubSeq(name, Len(name) - Len(ext) + 1, Len(name)), ext)
                /\ \A seg \in segments, pat \in bench.excludes : ~Fnmatch(seg, pat)
                /\ \A pat \in patterns :
                     /\ ~Fnmatch(name, pat)
                     /\ \A seg \in segments : ~Fnmatch(seg, RstripSlash(pat))

\* an external tool printed a file of an excluded directory, an ignored file
\* and a file of another extension, and something was still returned
C30_Witness ==
    /\ bench.fn = "discover" /\ bench.at = "done"
    /\ bench.strategy \in {"fd", "find"}
    /\ Len(bench.out) > 0 /\ Len(bench.out) + 2 < Len(bench.raw)
    /\ \E i \in 1..Len(bench.raw) : IsExcludedParts(bench.raw[i], bench.excludes)
    /\ \E i \in 1..Len(bench.raw) : ShouldIgnore(bench.raw[i], bench.ignore_patterns)
\* the order of the strategies of an incremental scan that went through them
StrategyChain ==
    /\ (bench.fd_result = "missing") = ~bench.fd
    /\ bench.fd_result \in ToolRuns \cup {"missing"}
    /\ (bench.strategy = "fd") = (bench.fd_result = "output")
    /\ bench.fd_result = "output" => bench.find_result = "untried"
    /\ bench.fd_result # "output" =>
         /\ bench.find_result # "untried"
         /\ bench.find_result \in ToolRuns =>
                bench.find /\ bench.since_timestamp_file = "exists"
         /\ (bench.find /\ bench.since_timestamp_file = "exists") =>
                bench.find_result \in ToolRuns
         /\ (bench.strategy = "find") = (bench.find_result = "output")
         /\ (bench.strategy = "mtime") = (bench.find_result # "output")

SUPPORTED_EXTENSIONS == {<<".", "p", "y">>, <<".", "m", "d">>}

\* the printed path: the segments joined by '/'
RECURSIVE PathString(_)
PathString(p) ==
    IF Len(p) = 1 THEN p[1]
    ELSE PathString(SubSeq(p, 1, Len(p) - 1)) \o <<"/">> \o p[Len(p)]

StartPassFilter(changed_files, exclude_dirs) ==
    [fn |-> "pass_filter", changed_files |-> changed_files,
     exclude_dirs |-> exclude_dirs, i |-> 1, supported_files |-> <<>>,
     at |-> "loop"]

InitPassFilter ==
    /\ ServerInit
    /\ \E changed_files \in ToolOutputs, exclude_dirs \in ExcludeSets :
         bench = StartPassFilter(changed_files, exclude_dirs)

\* server.py 166-173: one turn of the loop over the printed paths
PassFilterFile ==
    /\ bench.fn = "pass_filter" /\ bench.at = "loop"
    /\ bench.i <= Len(bench.changed_files)
    /\ LET file_path == bench.changed_files[bench.i]
           ext == Lower(Suffix(file_path[Len(file_path)]))
           keep == /\ ext \in SUPPORTED_EXTENSIONS
                   /\ ~\E exc \in bench.exclude_dirs :
                          Contains(exc, PathString(file_path))
       IN  bench' = [bench EXCEPT
                        !.i = @ + 1,
                        !.supported_files =
                            IF keep THEN Append(@, file_path) ELSE @]
    /\ UNCHANGED serverVars

\* server.py 175: the list the pass goes on to index
PassFilterDone ==
    /\ bench.fn = "pass_filter" /\ bench.at = "loop"
    /\ bench.i > Len(bench.changed_files)
    /\ bench' = [bench EXCEPT !.at = "done"]
    /\ UNCHANGED serverVars

NextPassFilter == PassFilterFile \/ PassFilterDone

SpecPassFilter == InitPassFilter /\ [][NextPassFilter]_vars

\* C32: the changed files a periodic pass keeps for re-indexing are exactly
\* the printed files FileDiscovery accepts: supported extension and no path
\* segment matching an exclude glob pattern.
C32_PassKeepsWhatDiscoveryAccepts ==
    (bench.fn = "pass_filter" /\ bench.at = "done") =>
        bench.supported_files =
            Finalize(bench.changed_files, 1, <<>>, SUPPORTED_EXTENSIONS,
                     bench.exclude_dirs, {})
\* ------------------------------------------------------------------
\* Construction of a FileIndexer over an existing index directory
\* (indexer.py 109-134): file_metadata.json is absent, holds a complete JSON
\* object, or is corrupt (truncated by an interrupted save, or not JSON).

MetadataMaps == [Paths -> {NoRec} \cup {FileRecord(c, 1) : c \in Contents}]

MetadataFiles ==
    {MetaAbsent, MetaPartial, [state |-> "corrupt", data |-> EmptyMeta]}
        \cup {MetaComplete(m) : m \in MetadataMaps}

StartLoad(file, contents) ==
    [fn |-> "load", file |-> file, disk |-> contents, at |-> "init",
     file_metadata |-> EmptyMeta, path |-> "a.py", force |-> FALSE,
     should_index |-> FALSE]

InitLoad ==
    /\ ServerInit
    /\ \E file \in MetadataFiles, contents \in [Paths -> Contents] :
         bench = StartLoad(file, contents)

\* indexer.py 148-153 as called from __init__ (line 124): json.load of a file
\* that is no complete JSON document raises, and nothing catches it
LoadFileMetadata ==
    /\ bench.fn = "load" /\ bench.at = "init"
    /\ IF bench.file.state = "absent"
       THEN bench' = [bench EXCEPT !.at = "constructed"]
       ELSE IF bench.file.state = "complete"
       THEN bench' = [bench EXCEPT !.at = "constructed",
                                   !.file_metadata = bench.file.data]
       ELSE bench' = [bench EXCEPT !.at = "raised"]
    /\ UNCHANGED serverVars

\* indexer.py 165-176: the first index_file call of the new indexer decides
\* whether to index the file
LoadShouldIndexFile ==
    /\ bench.fn = "load" /\ bench.at = "constructed"
    /\ \E path \in Paths, forced \in BOOLEAN :
         bench' = [bench EXCEPT
                      !.at = "asked", !.path = path, !.force = forced,
                      !.should_index =
                          \/ forced
                          \/ ~bench.file_metadata[path].present
                          \/ FileHash(bench.disk[path]) #
                                 bench.file_metadata[path].hash]
    /\ UNCHANGED serverVars

NextLoad == LoadFileMetadata \/ LoadShouldIndexFile

SpecLoad == InitLoad /\ [][NextLoad]_vars

\* C33: a corrupt metadata store is treated as empty metadata: loading it
\* does not raise, and the indexer starts with no FileRecord at all.
C33_CorruptStoreLoadsAsEmpty ==
    (bench.fn = "load" /\ bench.file.state \in {"partial", "corrupt"}
        /\ bench.at # "init") =>
        bench.at # "raised" /\ bench.file_metadata = EmptyMeta
\* ------------------------------------------------------------------
\* The chunks of the file's present content are what the project collection
\* holds for the path.
ReindexedNow(p) ==
    ChunksOfFile(store[CollectionName(ProjectDirName)], p) = ChunkText(p, disk[p])

\* C34: every change to a supported file under the watched root is re-indexed
\* by some periodic pass, a file whose re-index failed being found again by a
\* later pass: a pass stops reporting a file as changed (the timestamp file
\* moves past its modification time) only when its present content is indexed.
C34_FailedReindexFoundAgain ==
    [][\A p \in Paths :
          (changed[p] /\ ~changed'[p] /\ disk'[p] # NoFile) => ReindexedNow(p)']_vars
\* C35: whenever no indexing call or periodic pass is in progress, a path has
\* a FileRecord if and only if the store holds chunks of it, and the record's
\* chunk count is the number of stored chunks of the path.
C35_RecordsMatchStoredChunks ==
    (pc = "idle" /\ op = "none") =>
        \A p \in Paths :
            /\ file_metadata[p].present = (StoredChunks(p) # {})
            /\ file_metadata[p].present =>
                   file_metadata[p].chunks = Cardinality(StoredChunks(p))
\* C36: the hash stored in a FileRecord is the hash of the content that was
\* chunked and inserted, also when the file is modified while index_file runs;
\* so a file skipped as unchanged has its present content in the store.
C36_RecordedHashIsOfIndexedContent ==
    /\ pc = "if_save" =>
           file_metadata[call.path].hash = FileHash(call.content)
    /\ (pc = "if_ret" /\ call.unchanged /\ ~call.failed /\ ~call.raised
            /\ call.content = NoFile) =>
           ChunkText(call.path, disk[call.path]) \subseteq StoredChunks(call.path)
\* C37: when embedding generation fails during index_file, nothing was
\* deleted from or inserted into the store and the FileRecord is as it was,
\* in memory and in the metadata file.
C37_EmbedFailureLeavesStoreAndRecord ==
    (pc = "if_ret" /\ call.failed /\ call.error = "embed") =>
        /\ StoredChunks(call.path) = call.preChunks
        /\ file_metadata[call.path] = call.preRec
        /\ PersistedRecord(call.path) = call.preFile

C37_Witness ==
    /\ pc = "if_ret" /\ call.failed /\ call.error = "embed"
    /\ call.preRec.present /\ call.preChunks # {}
\* ------------------------------------------------------------------
\* One FileIndexer.index_file call (indexer.py 228-322) on a file of a
\* supported or an unsupported extension, with or without a FileRecord, as a
\* caller of the class may issue it.  A name is the sequence of its
\* characters.

IndexFileNames == {<<"a", ".", "p", "y">>, <<"a", ".", "P", "Y">>,
                   <<"a", ".", "b", "i", "n">>}

StartIndexFile(path, forced, content, rec) ==
    [fn |-> "index_file", path |-> path, force |-> forced, disk |-> content,
     preRec |-> rec, record |-> rec, saved |-> rec,
     preChunks |-> IF rec.present THEN ChunkText(path, rec.chunks) ELSE {},
     chunks |-> IF rec.present THEN ChunkText(path, rec.chunks) ELSE {},
     embed_requests |-> 0, at |-> "check", ret |-> 0, failed |-> FALSE]

InitIndexFile ==
    /\ ServerInit
    /\ \E path \in IndexFileNames, forced \in BOOLEAN, content \in Contents,
          rec \in {NoRec} \cup {FileRecord(c, c) : c \in Contents} :
         bench = StartIndexFile(path, forced, content, rec)

\* (mutation of IndexFileEntry: the extension is not looked at)
IndexFileEntryAnyExtension ==
    /\ bench.fn = "index_file" /\ bench.at = "check"
    /\ IF ~(bench.force \/ ~bench.record.present
              \/ FileHash(bench.disk) # bench.record.hash)
       THEN bench' = [bench EXCEPT !.at = "done", !.ret = 0]
       ELSE bench' = [bench EXCEPT !.at = "embed"]
    /\ UNCHANGED serverVars

\* indexer.py 242-251: return 0 for an unchanged file, then for an
\* unsupported extension
IndexFileEntry ==
    /\ bench.fn = "index_file" /\ bench.at = "check"
    /\ IF ~(bench.force \/ ~bench.record.present
              \/ FileHash(bench.disk) # bench.record.hash)
       THEN bench' = [bench EXCEPT !.at = "done", !.ret = 0]
       ELSE IF Lower(Suffix(bench.path)) \notin SUPPORTED_EXTENSIONS
       THEN bench' = [bench EXCEPT !.at = "done", !.ret = 0]
       ELSE bench' = [bench EXCEPT !.at = "embed"]
    /\ UNCHANGED serverVars

\* indexer.py 255-264, 320-322: read, chunk, one batch embedding request
IndexFileEmbed ==
    /\ bench.fn = "index_file" /\ bench.at = "embed"
    /\ \E ok \in BOOLEAN :
         bench' = [bench EXCEPT
                      !.embed_requests = @ + 1,
                      !.at = IF ok THEN "store" ELSE "done",
                      !.failed = ~ok]
    /\ UNCHANGED serverVars

\* indexer.py 291-306, 320-322: delete the old chunks of a recorded file, add
\* the new ones; an exception of add_documents ends the call
IndexFileStore ==
    /\ bench.fn = "index_file" /\ bench.at = "store"
    /\ LET kept == IF bench.record.present THEN {} ELSE bench.chunks
       IN  \E ok \in BOOLEAN :
             bench' = [bench EXCEPT
                          !.chunks = IF ok
                                     THEN kept \cup ChunkText(bench.path, bench.disk)
                                     ELSE kept,
                          !.at = IF ok THEN "record" ELSE "done",
                          !.failed = ~ok]
    /\ UNCHANGED serverVars

\* indexer.py 308-318: the FileRecord, saved, and the number of chunks returned
IndexFileRecord ==
    /\ bench.fn = "index_file" /\ bench.at = "record"
    /\ bench' = [bench EXCEPT
                    !.record = FileRecord(bench.disk, bench.disk),
                    !.saved = FileRecord(bench.disk, bench.disk),
                    !.at = "done", !.ret = bench.disk]
    /\ UNCHANGED serverVars

NextIndexFile ==
    \/ IndexFileEntry \/ IndexFileEmbed \/ IndexFileStore \/ IndexFileRecord

SpecIndexFile == InitIndexFile /\ [][NextIndexFile]_vars

\* the file has a FileRecord with the hash of its content and is not forced
SkippedAsUnchanged ==
    ~bench.force /\ bench.preRec.present /\ bench.preRec.hash = FileHash(bench.disk)

\* C38: an index_file call on an unchanged file or on a file of an
\* unsupported extension returns 0 without an embedding request and leaves
\* the stored chunks, the FileRecord and the metadata file as they were.
C38_SkippedCallChangesNothing ==
    (bench.fn = "index_file" /\ bench.at = "done"
        /\ (SkippedAsUnchanged
              \/ Lower(Suffix(bench.path)) \notin SUPPORTED_EXTENSIONS)) =>
        /\ bench.ret = 0 /\ ~bench.failed
        /\ bench.embed_requests = 0
        /\ bench.chunks = bench.preChunks
        /\ bench.record = bench.preRec
        /\ bench.saved = bench.preRec

C38_Witness ==
    /\ bench.fn = "index_file" /\ bench.at = "done"
    /\ Lower(Suffix(bench.path)) \notin SUPPORTED_EXTENSIONS
    /\ bench.force /\ bench.preRec.present
    /\ bench.preRec.hash # FileHash(bench.disk)
\* C39: a periodic pass does not change the collection that a later search
\* without a collection argument queries: no step of a pass changes the
\* active collection of the search engine's VectorDB.
C39_PassKeepsSearchCollection ==
    [][(op = "pass" /\ alive' \in {"running", "signalled"}) =>
           srvColl' = srvColl]_vars
\* ------------------------------------------------------------------
\* The deletion step of a periodic pass (server.py 200-252) over recorded
\* files of a watched root /p, of its sibling /p1 and of /q.  A path is the
\* sequence of its characters; watched_dirs is a Python set, walked in some
\* order.

RootP == <<"/", "p">>
RootP1 == <<"/", "p", "1">>
RootQ == <<"/", "q">>
FileInP == <<"/", "p", "/", "a">>
FileInP1 == <<"/", "p", "1", "/", "a">>
FileInQ == <<"/", "q", "/", "a">>
RecordedFiles == {FileInP, FileInP1, FileInQ}
WatchedOrders == {<<RootP>>, <<RootP1>>, <<RootP, RootP1>>, <<RootP1, RootP>>}

\* str.startswith
StartsWith(s, prefix) ==
    Len(prefix) <= Len(s) /\ SubSeq(s, 1, Len(prefix)) = prefix

\* Path(watched_dir).resolve().name
DirBaseName(d) ==
    LET slashes == {i \in 1..Len(d) : d[i] = "/"}
    IN  SubSeq(d, (CHOOSE i \in slashes : \A j \in slashes : j <= i) + 1, Len(d))

\* the files as ordered in file_metadata.json
RecordedOrder == <<FileInP, FileInP1, FileInQ>>

StartDeletion(watched_dirs, recorded, existing, stored) ==
    [fn |-> "deletion", watched_dirs |-> watched_dirs,
     preRecorded |-> recorded, metadata_file |-> recorded,
     exists |-> existing,
     preChunks |-> stored, chunks |-> stored,
     file_metadata |-> {}, deleted_files |-> <<>>, collection_of |-> <<>>,
     at |-> "scan"]

InitDeletion ==
    /\ ServerInit
    /\ \E watched_dirs \in WatchedOrders, recorded \in SUBSET RecordedFiles,
          existing \in SUBSET RecordedFiles,
          stored \in SUBSET
                            {[coll |-> DeletionCollectionName(DirBaseName(RootP)), file_path |-> FileInP],
                             [coll |-> DeletionCollectionName(DirBaseName(RootP1)), file_path |-> FileInP1],
                             [coll |-> DeletionCollectionName(DirBaseName(RootP)), file_path |-> FileInP1],
                             [coll |-> DeletionCollectionName(DirBaseName(RootQ)), file_path |-> FileInQ]} :
         bench = StartDeletion(watched_dirs, recorded, existing, stored)

\* server.py 203-232: the recorded files that start with a watched directory
\* and are gone, each with the collection of the first watched directory it
\* starts with
DeletionScan ==
    /\ bench.fn = "deletion" /\ bench.at = "scan"
    /\ LET w == bench.watched_dirs
           gone == SelectSeq(RecordedOrder,
                       LAMBDA f : /\ f \in bench.metadata_file
                                  /\ \E i \in 1..Len(w) : StartsWith(f, w[i])
                                  /\ f \notin bench.exists)
           first(f) == CHOOSE i \in 1..Len(w) :
                          /\ StartsWith(f, w[i])
                          /\ \A j \in 1..(i - 1) : ~StartsWith(f, w[j])
       IN  bench' = [bench EXCEPT
                        !.file_metadata = bench.metadata_file,
                        !.deleted_files = gone,
                        !.collection_of =
                            [k \in 1..Len(gone) |->
                                DeletionCollectionName(DirBaseName(w[first(gone[k])]))],
                        !.at = IF gone = <<>> THEN "done" ELSE "delete"]
    /\ UNCHANGED serverVars

\* server.py 235-244: switch to the collection, delete the file's chunks
\* there, drop its FileRecord
DeletionDelete ==
    /\ bench.fn = "deletion" /\ bench.at = "delete"
    /\ bench.deleted_files # <<>>
    /\ LET f == Head(bench.deleted_files)
           c == Head(bench.collection_of)
       IN  bench' = [bench EXCEPT
                        !.chunks = @ \ {[coll |-> c, file_path |-> f]},
                        !.file_metadata = @ \ {f},
                        !.deleted_files = Tail(@),
                        !.collection_of = Tail(@)]
    /\ UNCHANGED serverVars

\* server.py 248-252: the metadata file is rewritten
DeletionSave ==
    /\ bench.fn = "deletion" /\ bench.at = "delete"
    /\ bench.deleted_files = <<>>
    /\ bench' = [bench EXCEPT !.metadata_file = bench.file_metadata,
                              !.at = "done"]
    /\ UNCHANGED serverVars

NextDeletion == DeletionScan \/ DeletionDelete \/ DeletionSave

SpecDeletion == InitDeletion /\ [][NextDeletion]_vars

\* the file lies in the directory or below it
LocatedUnder(f, dir) == StartsWith(f, dir \o <<"/">>)

\* C40: the deletion step removes the FileRecord and chunks only of files
\* located under a watched root, and removes chunks only from the collection
\* of the root that contains the file; a file under a sibling directory whose
\* name starts with a watched root's path is not touched.
C40_DeletionStaysInsideWatchedRoots ==
    (bench.fn = "deletion" /\ bench.at = "done") =>
        /\ \A f \in bench.preRecorded \ bench.metadata_file :
               \E i \in 1..Len(bench.watched_dirs) :
                   LocatedUnder(f, bench.watched_dirs[i])
        /\ \A k \in bench.preChunks \ bench.chunks :
               \E i \in 1..Len(bench.watched_dirs) :
                   /\ LocatedUnder(k.file_path, bench.watched_dirs[i])
                   /\ k.coll = DeletionCollectionName(DirBaseName(bench.watched_dirs[i]))

====
